---- MODULE Spec2Model ----
(***************************************************************************)
(* html2exe: the build pipeline of the conversion server.                  *)
(*                                                                         *)
(* The model follows the asynchronous server (status tracker, POST         *)
(* /api/convert, buildProcess, GET /api/status), FileProcessor (archive    *)
(* intake) and ElectronBuilder (scaffold, dependency install, toolchain    *)
(* run).  Node runs all JavaScript on one thread: a piece of code between  *)
(* two awaits runs without interleaving, and execSync keeps the thread for *)
(* as long as the child process runs.  The variable loop names the build   *)
(* whose code holds the thread (0 when the event loop is idle); an action  *)
(* that resumes a pipeline after an await needs loop = 0.                  *)
(*                                                                         *)
(* Paths are sequences of tokens: "/", "\\" and "." stand for themselves,  *)
(* every other token is an opaque run of characters without separators or *)
(* dots.  A location on disk is a sequence of segments from the root, each *)
(* segment a non-empty sequence of tokens.                                 *)
(***************************************************************************)
EXTENDS Integers, Sequences, FiniteSets, TLC

(***************************************************************************)
(* Bounds                                                                  *)
(***************************************************************************)
MaxBuilds == 2

BuildIds == 1..MaxBuilds

(***************************************************************************)
(* Phases (BUILD_PHASES, PHASE_DESCRIPTIONS)                               *)
(***************************************************************************)
BUILD_PHASES ==
  [UPLOADING |-> "uploading", EXTRACTING |-> "extracting",
   VALIDATING |-> "validating", GENERATING |-> "generating",
   INSTALLING |-> "installing", BUILDING |-> "building",
   DISTRIBUTING |-> "distributing", COMPLETED |-> "completed",
   FAILED |-> "failed"]

PHASE_DESCRIPTIONS ==
  [uploading |-> "Uploading files to server",
   extracting |-> "Extracting ZIP archive",
   validating |-> "Validating content and security",
   generating |-> "Creating Electron application",
   installing |-> "Installing dependencies",
   building |-> "Building Windows executable",
   distributing |-> "Preparing download",
   completed |-> "Build completed successfully",
   failed |-> "Build failed"]

(***************************************************************************)
(* path (posix): normalize, join, extname; FileProcessor.sanitizePath      *)
(***************************************************************************)
RECURSIVE stripLeadingSlashes(_)
stripLeadingSlashes(s) ==
  IF s # <<>> /\ Head(s) = "/" THEN stripLeadingSlashes(Tail(s)) ELSE s

RECURSIVE splitSegments(_, _)
splitSegments(s, cur) ==
  IF s = <<>> THEN <<cur>>
  ELSE IF Head(s) = "/" THEN <<cur>> \o splitSegments(Tail(s), <<>>)
  ELSE splitSegments(Tail(s), Append(cur, Head(s)))

RECURSIVE normalizeString(_, _, _)
normalizeString(segs, res, allowAboveRoot) ==
  IF segs = <<>> THEN res
  ELSE LET seg == Head(segs)
           rest == Tail(segs)
       IN IF seg = <<>> \/ seg = <<".">>
          THEN normalizeString(rest, res, allowAboveRoot)
          ELSE IF seg = <<".", ".">>
               THEN IF res # <<>> /\ res[Len(res)] # <<".", ".">>
                    THEN normalizeString(rest, SubSeq(res, 1, Len(res) - 1), allowAboveRoot)
                    ELSE IF allowAboveRoot
                         THEN normalizeString(rest, Append(res, seg), allowAboveRoot)
                         ELSE normalizeString(rest, res, allowAboveRoot)
               ELSE normalizeString(rest, Append(res, seg), allowAboveRoot)

RECURSIVE joinSegments(_)
joinSegments(segs) ==
  IF segs = <<>> THEN <<>>
  ELSE IF Len(segs) = 1 THEN Head(segs)
  ELSE Head(segs) \o <<"/">> \o joinSegments(Tail(segs))

normalize(p) ==
  IF p = <<>> THEN <<".">>
  ELSE LET isAbsolute == Head(p) = "/"
           trailing == p[Len(p)] = "/"
           body == joinSegments(normalizeString(splitSegments(p, <<>>), <<>>, ~isAbsolute))
       IN IF body = <<>>
          THEN IF isAbsolute THEN <<"/">> ELSE IF trailing THEN <<".", "/">> ELSE <<".">>
          ELSE (IF isAbsolute THEN <<"/">> ELSE <<>>) \o body
                 \o (IF trailing THEN <<"/">> ELSE <<>>)

\* sanitized.replace(/\.\.[\/\\]/g, ''): one pass, left to right, no rescan
RECURSIVE removeParentRefs(_)
removeParentRefs(s) ==
  IF s = <<>> THEN <<>>
  ELSE IF Len(s) >= 3 /\ s[1] = "." /\ s[2] = "." /\ s[3] \in {"/", "\\"}
       THEN removeParentRefs(SubSeq(s, 4, Len(s)))
       ELSE <<Head(s)>> \o removeParentRefs(Tail(s))

sanitizePath(filePath) ==
  removeParentRefs(normalize(stripLeadingSlashes(filePath)))

\* path.join(dir, rel) for an absolute, normalized dir: a location
join(dir, rel) == normalizeString(splitSegments(rel, <<>>), dir, FALSE)

dirname(loc) == IF loc = <<>> THEN <<>> ELSE SubSeq(loc, 1, Len(loc) - 1)

\* path.relative(dir, loc) for loc below dir
relative(dir, loc) == joinSegments(SubSeq(loc, Len(dir) + 1, Len(loc)))

toLowerCase(tok) ==
  CASE tok = "BAT" -> "bat"
    [] tok = "EXE" -> "exe"
    [] tok = "HTML" -> "html"
    [] tok = "Run" -> "run"
    [] OTHER -> tok

lowerAll(s) == [i \in 1..Len(s) |-> toLowerCase(s[i])]

\* path.extname of the last segment of a path
extname(p) ==
  LET segs == splitSegments(p, <<>>)
      base == IF p = <<>> THEN <<>>
              ELSE IF segs[Len(segs)] = <<>> /\ Len(segs) > 1
                   THEN segs[Len(segs) - 1] ELSE segs[Len(segs)]
      dots == {i \in 1..Len(base) : base[i] = "."}
      startDot == IF dots = {} THEN 0 ELSE CHOOSE i \in dots : \A j \in dots : j <= i
  IN IF startDot = 0 \/ startDot = 1 \/ base = <<".", ".">>
     THEN <<>>
     ELSE SubSeq(base, startDot, Len(base))

(***************************************************************************)
(* The disk: fs-extra over [d |-> directories, f |-> files]                *)
(***************************************************************************)
IsPrefix(p, q) == Len(p) <= Len(q) /\ SubSeq(q, 1, Len(p)) = p

Prefixes(p) == {SubSeq(p, 1, n) : n \in 0..Len(p)}

pathExists(fs, p) == p \in fs.d \/ p \in DOMAIN fs.f

\* fs.ensureDir fails when a component of the path is a file
canEnsureDir(fs, p) == \A q \in Prefixes(p) : q \notin DOMAIN fs.f

ensureDir(fs, p) == [fs EXCEPT !.d = @ \cup Prefixes(p)]

remove(fs, p) ==
  [d |-> {q \in fs.d : ~IsPrefix(p, q)},
   f |-> [q \in {x \in DOMAIN fs.f : ~IsPrefix(p, x)} |-> fs.f[q]]]

writeFile(fs, p, v) ==
  [fs EXCEPT !.f = [q \in DOMAIN fs.f \cup {p} |-> IF q = p THEN v ELSE fs.f[q]]]

\* the files below a directory (FileProcessor.getAllFiles, as a set)
getAllFiles(fs, dir) == {p \in DOMAIN fs.f : IsPrefix(dir, p) /\ p # dir}

\* fs.readdir: the names directly inside a directory
readdir(fs, dir) ==
  {p \in fs.d \cup DOMAIN fs.f : Len(p) = Len(dir) + 1 /\ IsPrefix(dir, p)}

\* re-root everything below src at dst (fs.copy keeps src, fs.move drops it)
rebase(src, dst, p) == dst \o SubSeq(p, Len(src) + 1, Len(p))

copy(fs, src, dst) ==
  LET below == {p \in DOMAIN fs.f : IsPrefix(src, p)}
      moved == {rebase(src, dst, p) : p \in below}
  IN [d |-> fs.d \cup Prefixes(dirname(dst))
              \cup {rebase(src, dst, q) : q \in {x \in fs.d : IsPrefix(src, x)}},
      f |-> [q \in DOMAIN fs.f \cup moved |->
               IF q \in moved
               THEN fs.f[CHOOSE p \in below : rebase(src, dst, p) = q]
               ELSE fs.f[q]]]

move(fs, src, dst) == remove(copy(fs, src, dst), src)

(***************************************************************************)
(* Layout on disk (FileProcessor and ElectronBuilder constructors)         *)
(***************************************************************************)
appRoot == << <<"app">> >>

tempDir == appRoot \o << <<"temp">> >>

distDir == appRoot \o << <<"dist">> >>

idName(b) == <<ToString(b)>>

buildDir(b) == tempDir \o <<idName(b)>>

extractDirOf(b) == buildDir(b) \o << <<"content">> >>

outputDir(b) == distDir \o <<idName(b)>>

\* identifiers no submission of this run returns: 101 and 102 name
\* directories left by an earlier run of the server (an interrupted build
\* and a finished one), 103 names nothing on disk
ForeignIds == {101, 102, 103}

InitDisk ==
  [d |-> Prefixes(buildDir(101)) \cup Prefixes(buildDir(102))
           \cup Prefixes(outputDir(102)) \cup Prefixes(<< <<"etc">> >>),
   f |-> [p \in {} |-> 0]]

(***************************************************************************)
(* Errors: a message is a sequence of strings (text and path tokens)       *)
(***************************************************************************)
NoError == <<>>

\* what fs and spawn report for a path that is not there
noSuchFile == <<"ENOENT: no such file or directory">>

(***************************************************************************)
(* FileProcessor                                                           *)
(***************************************************************************)
maxFileSize == 10 * 1024 * 1024

maxTotalSize == 50 * 1024 * 1024

blockedExtensions ==
  { <<".", "exe">>, <<".", "bat">>, <<".", "sh">>, <<".", "cmd">>, <<".", "scr">>,
    <<".", "vbs">>, <<".", "ps1">>, <<".", "com">>, <<".", "pif">> }

validSignatures == { <<80, 75, 3, 4>>, <<80, 75, 5, 6>>, <<80, 75, 7, 8>> }

\* validateZipBuffer: the message it throws, NoError when it returns
\* (validateZipBufferSignatureFirst: the signature looked at before the size)
validateZipBufferSignatureFirst(buffer) ==
  IF buffer.length = 0 THEN <<"Empty ZIP file provided">>
  ELSE IF ~\E sig \in validSignatures :
             buffer.magic = SubSeq(sig, 1, Len(buffer.magic))
       THEN <<"Invalid ZIP file format">>
       ELSE IF buffer.length > maxTotalSize
            THEN <<"ZIP file too large. Maximum size is 50MB">>
            ELSE NoError

validateZipBuffer(buffer) ==
  IF buffer.length = 0 THEN <<"Empty ZIP file provided">>
  ELSE IF buffer.length > maxTotalSize
       THEN <<"ZIP file too large. Maximum size is 50MB">>
       ELSE IF ~\E sig \in validSignatures :
                  buffer.magic = SubSeq(sig, 1, Len(buffer.magic))
            THEN <<"Invalid ZIP file format">>
            ELSE NoError

isAllowedFileBroken(filePath) == extname(filePath) \notin blockedExtensions

isAllowedFile(filePath) == lowerAll(extname(filePath)) \notin blockedExtensions

sanitizeAndValidatePath(baseDir, filePath) ==
  LET sanitized == sanitizePath(filePath)
      resolvedPath == join(baseDir, sanitized)
  IN [safe |-> IsPrefix(baseDir, resolvedPath), path |-> sanitized]

\* the 'entry' handler of extractZipFile: one archive entry written to disk;
\* an entry whose directory or file cannot be created is skipped
extractEntry(fs, extractDir, entry) ==
  LET safePath == sanitizePath(entry.path)
      fullPath == join(extractDir, safePath)
  IN IF entry.type = "File"
     THEN IF ~canEnsureDir(fs, dirname(fullPath)) THEN fs
          ELSE LET fs1 == ensureDir(fs, dirname(fullPath))
               IN IF fullPath \in fs1.d THEN fs1
                  ELSE writeFile(fs1, fullPath, [size |-> entry.size, data |-> entry.path])
     ELSE IF canEnsureDir(fs, fullPath) THEN ensureDir(fs, fullPath) ELSE fs

RECURSIVE extractEntries(_, _, _)
extractEntries(fs, extractDir, entries) ==
  IF entries = <<>> THEN fs
  ELSE extractEntries(extractEntry(fs, extractDir, Head(entries)), extractDir, Tail(entries))

\* the checks extractZipFile makes on one extracted file
extractedFileError(fs, extractDir, filePath) ==
  LET relativePath == relative(extractDir, filePath)
      pathCheck == sanitizeAndValidatePath(extractDir, relativePath)
  IN IF ~pathCheck.safe THEN <<"Unsafe path detected: ">> \o relativePath
     ELSE IF fs.f[filePath].size > maxFileSize
          THEN <<"File too large: ">> \o relativePath
          ELSE IF ~isAllowedFile(pathCheck.path)
               THEN <<"File type not allowed: ">> \o pathCheck.path
               ELSE NoError

wrapExtractionError(msg) ==
  <<"ZIP extraction failed: ">> \o msg
    \o <<". Please ensure your ZIP file is valid and not corrupted.">>

\* the errors the validation loop of extractZipFile can throw: the loop stops
\* at the first offending file in readdir order, which the code does not fix;
\* getAllFiles throws when the directory is not there
extractionErrors(fs, extractDir) ==
  IF ~pathExists(fs, extractDir) THEN {wrapExtractionError(noSuchFile)}
  ELSE {wrapExtractionError(extractedFileError(fs, extractDir, p)) :
          p \in {q \in getAllFiles(fs, extractDir) :
                   extractedFileError(fs, extractDir, q) # NoError}}

isHtml(loc) == lowerAll(extname(loc[Len(loc)])) = <<".", "html">>

wrapValidationError(msg) ==
  <<"Content validation failed: ">> \o msg
    \o <<". Ensure your ZIP contains at least one .html file and only allowed file types.">>

\* (validateExtractedContentAnyFile: the check without the HTML requirement)
validateExtractedContentAnyFile(fs, extractDir) ==
  IF ~pathExists(fs, extractDir)
  THEN wrapValidationError(<<"Extract directory does not exist">>)
  ELSE IF getAllFiles(fs, extractDir) = {}
       THEN wrapValidationError(<<"No files found in ZIP archive">>)
       ELSE NoError

validateExtractedContent(fs, extractDir) ==
  IF ~pathExists(fs, extractDir)
  THEN wrapValidationError(<<"Extract directory does not exist">>)
  ELSE IF getAllFiles(fs, extractDir) = {}
       THEN wrapValidationError(<<"No files found in ZIP archive">>)
       ELSE IF {p \in getAllFiles(fs, extractDir) : isHtml(p)} = {}
            THEN wrapValidationError(<<"No HTML files found in ZIP archive">>)
            ELSE NoError

\* handleNestedStructure: the disks it can leave.  The children of the single
\* top-level directory are moved up in readdir order; fs.move refuses an
\* existing target, the error is swallowed and the loop stops where it was
RECURSIVE moveAll(_, _, _, _)
moveAll(fs, nestedDir, extractDir, children) ==
  IF children = {} THEN fs
  ELSE LET c == CHOOSE x \in children : TRUE
       IN moveAll(move(fs, c, rebase(nestedDir, extractDir, c)),
                  nestedDir, extractDir, children \ {c})

handleNestedStructure(fs, extractDir) ==
  LET entries == readdir(fs, extractDir)
  IN IF Cardinality(entries) = 1 /\ entries \subseteq fs.d
     THEN LET nestedDir == CHOOSE e \in entries : TRUE
              nestedEntries == readdir(fs, nestedDir)
              clash == {c \in nestedEntries :
                          pathExists(fs, rebase(nestedDir, extractDir, c))}
          IN IF \E p \in getAllFiles(fs, nestedDir) : isHtml(p)
             THEN IF clash = {}
                  THEN {remove(moveAll(fs, nestedDir, extractDir, nestedEntries), nestedDir)}
                  ELSE {moveAll(fs, nestedDir, extractDir, S) :
                          S \in SUBSET (nestedEntries \ clash)}
             ELSE {fs}
     ELSE {fs}

\* ensureIndexHtml: the disks it can leave (the first HTML file of the scan
\* becomes index.html; the scan order is readdir order)
ensureIndexHtml(fs, extractDir) ==
  LET indexPath == extractDir \o << <<"index", ".", "html">> >>
      htmlFiles == {p \in getAllFiles(fs, extractDir) : isHtml(p)}
  IN IF pathExists(fs, indexPath) THEN {fs}
     ELSE {writeFile(fs, indexPath, fs.f[firstHtmlFile]) : firstHtmlFile \in htmlFiles}

\* a cleanup that forgets the output directory
cleanupWorkspaceOnly(fs, b) ==
  {[fs |-> IF pathExists(fs, buildDir(b)) THEN remove(fs, buildDir(b)) ELSE fs,
    threw |-> FALSE]}

\* cleanup(buildId): the outcomes [fs, threw]; fs.remove can fail, and then
\* cleanup rethrows
cleanup(fs, b) ==
  LET fs1 == IF pathExists(fs, buildDir(b)) THEN remove(fs, buildDir(b)) ELSE fs
      fs2 == IF pathExists(fs1, outputDir(b)) THEN remove(fs1, outputDir(b)) ELSE fs1
  IN {[fs |-> fs2, threw |-> FALSE]}
       \cup (IF pathExists(fs, buildDir(b)) THEN {[fs |-> fs, threw |-> TRUE]} ELSE {})
       \cup (IF pathExists(fs1, outputDir(b)) THEN {[fs |-> fs1, threw |-> TRUE]} ELSE {})

(***************************************************************************)
(* Archives: what unzipper.Parse reports for an uploaded buffer            *)
(***************************************************************************)
MaxEntries == 2

File(path, size) == [path |-> path, type |-> "File", size |-> size]

Directory(path) == [path |-> path, type |-> "Directory", size |-> 0]

indexHtml == File(<<"index", ".", "html">>, 1)
styleCss == File(<<"style", ".", "css">>, 1)
aboutHtml == File(<<"about", ".", "HTML">>, 1)
runBat == File(<<"run", ".", "bat">>, 1)
deepRunBat == File(<<"assets", "/", "bin", "/", "Run", ".", "BAT">>, 1)
dotBat == File(<<".", "bat">>, 1)
etcPasswd == File(<<".", ".", "/", ".", ".", "/", "etc", "/", "passwd">>, 1)
escapingBat == File(<<".", ".", ".", "\\", ".", "/", "run", ".", "bat">>, 1)
bigVideo == File(<<"video", ".", "mp4">>, maxFileSize + 1)
escapingVideo == File(<<".", ".", ".", "\\", ".", "/", "video", ".", "mp4">>, maxFileSize + 1)
shadowedVideo == File(<<"index", ".", "html", "/", "video", ".", "mp4">>, maxFileSize + 1)
siteDir == Directory(<<"site", "/">>)
siteIndex == File(<<"site", "/", "index", ".", "html">>, 1)
siteSite == File(<<"site", "/", "site">>, 1)

EntryPool ==
  {indexHtml, styleCss, aboutHtml, runBat, deepRunBat, dotBat, etcPasswd,
   escapingBat, bigVideo, escapingVideo, shadowedVideo, siteDir, siteIndex, siteSite}

EntryLists == UNION {[1..n -> EntryPool] : n \in 0..MaxEntries}

zipMagic == <<80, 75, 3, 4>>

Zip(entries) == [length |-> 1024, magic |-> zipMagic, entries |-> entries]

\* every buffer the intake is checked on
IntakeArchives ==
  {Zip(es) : es \in EntryLists}
    \cup {[length |-> 0, magic |-> <<>>, entries |-> <<>>],
          [length |-> 1024, magic |-> <<77, 90, 3, 4>>, entries |-> <<>>],
          [length |-> maxTotalSize, magic |-> zipMagic, entries |-> <<indexHtml>>],
          [length |-> maxTotalSize + 1, magic |-> zipMagic, entries |-> <<indexHtml>>],
          [length |-> maxTotalSize + 1, magic |-> <<77, 90, 3, 4>>, entries |-> <<>>]}

(***************************************************************************)
(* App names (ElectronBuilder.sanitizeAppName): strings of characters      *)
(***************************************************************************)
lowerCaseLetters ==
  <<"a", "b", "c", "d", "e", "f", "g", "h", "i", "j", "k", "l", "m",
    "n", "o", "p", "q", "r", "s", "t", "u", "v", "w", "x", "y", "z">>

upperCaseLetters ==
  <<"A", "B", "C", "D", "E", "F", "G", "H", "I", "J", "K", "L", "M",
    "N", "O", "P", "Q", "R", "S", "T", "U", "V", "W", "X", "Y", "Z">>

digits == {"0", "1", "2", "3", "4", "5", "6", "7", "8", "9"}

Range(f) == {f[i] : i \in DOMAIN f}

\* String.prototype.toLowerCase, one character
lowerChar(c) ==
  IF c \in Range(upperCaseLetters)
  THEN lowerCaseLetters[CHOOSE i \in DOMAIN upperCaseLetters : upperCaseLetters[i] = c]
  ELSE c

whitespace == {" "}

RECURSIVE trimStart(_)
trimStart(s) ==
  IF s # <<>> /\ Head(s) \in whitespace THEN trimStart(Tail(s)) ELSE s

RECURSIVE trimEnd(_)
trimEnd(s) ==
  IF s # <<>> /\ s[Len(s)] \in whitespace THEN trimEnd(SubSeq(s, 1, Len(s) - 1)) ELSE s

trim(s) == trimEnd(trimStart(s))

\* s.replace(/[set]+/g, rep): every maximal run of characters of set becomes rep
RECURSIVE replaceRuns(_, _, _)
replaceRuns(s, set, rep) ==
  IF s = <<>> THEN <<>>
  ELSE IF Head(s) \in set
       THEN IF Len(s) >= 2 /\ s[2] \in set
            THEN replaceRuns(Tail(s), set, rep)
            ELSE rep \o replaceRuns(Tail(s), set, rep)
       ELSE <<Head(s)>> \o replaceRuns(Tail(s), set, rep)

\* s.replace(/[^set]/g, '')
keepOnly(s, set) == SelectSeq(s, LAMBDA c : c \in set)

RECURSIVE stripStart(_, _)
stripStart(s, set) ==
  IF s # <<>> /\ Head(s) \in set THEN stripStart(Tail(s), set) ELSE s

RECURSIVE stripEnd(_, _)
stripEnd(s, set) ==
  IF s # <<>> /\ s[Len(s)] \in set THEN stripEnd(SubSeq(s, 1, Len(s) - 1), set) ELSE s

npmMaxLength == 214

sanitizeAppName(name) ==
  LET lowered == [i \in 1..Len(name) |-> lowerChar(name[i])]
      hyphened == replaceRuns(trim(lowered), whitespace \cup {"_"}, <<"-">>)
      kept == keepOnly(hyphened, Range(lowerCaseLetters) \cup digits \cup {".", "-"})
      single == replaceRuns(replaceRuns(kept, {"-"}, <<"-">>), {"."}, <<".">>)
      stripped == stripEnd(stripStart(single, {".", "-"}), {".", "-"})
      undotted == IF stripped # <<>> /\ Head(stripped) \in {".", "_"}
                  THEN Tail(stripped) ELSE stripped
      prefixed == IF undotted # <<>> /\ Head(undotted) \in digits
                  THEN <<"a", "p", "p", "-">> \o undotted ELSE undotted
      cut == SubSeq(prefixed, 1, IF Len(prefixed) < npmMaxLength THEN Len(prefixed)
                                 ELSE npmMaxLength)
  IN IF cut = <<>> THEN <<"m", "y", "-", "a", "p", "p">> ELSE cut

\* config.appName is absent (or the empty string)
NoAppName == <<>>

MyApp == <<"M", "y", " ", "A", "p", "p">>

\* createElectronApp: config.appName || 'My App', and the check that throws
\* 'Invalid app name'
userAppNameOf(appName) == IF appName = NoAppName THEN MyApp ELSE appName

nameAccepted(appName) ==
  LET userAppName == userAppNameOf(appName)
      sanitizedName == sanitizeAppName(userAppName)
  IN ~(sanitizedName = <<>>
       \/ (sanitizedName = <<"m", "y", "-", "a", "p", "p">> /\ userAppName # MyApp))

\* the names clients send
AppNames ==
  {NoAppName, MyApp,
   <<"m", "y", " ", "a", "p", "p">>, <<"m", "y", "-", "a", "p", "p">>,
   <<"M", "y", "_", "A", "p", "p">>, <<"M", "Y", " ", " ", "A", "P", "P">>,
   <<"a">>, <<"1", "a">>, <<".", "a", ".">>, <<"A", " ", " ", "b", "!">>,
   <<"Z", "9">>, <<"!">>, <<"-", "-">>, <<" ">>, <<".", "_", ".">>}

(***************************************************************************)
(* The world a run takes place in: the uploads clients send, the ids they  *)
(* poll, and the ways npm, the toolchain and the file system can answer.   *)
(* FullWorld is used for a single build, LeanWorld keeps concurrent builds *)
(* within reach.                                                           *)
(***************************************************************************)
FullWorld ==
  [uploads |-> {Zip(<<indexHtml, styleCss>>), Zip(<<indexHtml, runBat>>),
                Zip(<<indexHtml, escapingBat>>), Zip(<<styleCss>>),
                [length |-> 1024, magic |-> <<77, 90, 3, 4>>, entries |-> <<>>]},
   polled |-> {1} \cup ForeignIds,
   icons |-> {"none", "ok", "bad"},
   appNames |-> {NoAppName, <<"!">>},
   templatesReadable |-> BOOLEAN,
   npmExits |-> {"ok", "failed"},
   toolchainOutputs |-> {"none", "setup", "portable", "parent", "both"},
   toolchainFailures |-> {"Command failed: npm run build", "spawnSync /bin/sh ETIMEDOUT"},
   removeThrows |-> BOOLEAN]

LeanWorld ==
  [uploads |-> {Zip(<<indexHtml, styleCss>>), Zip(<<indexHtml, runBat>>)},
   polled |-> {1},
   icons |-> {"ok"},
   appNames |-> {NoAppName},
   templatesReadable |-> {TRUE},
   npmExits |-> {"ok", "failed"},
   toolchainOutputs |-> {"setup"},
   toolchainFailures |-> {"Command failed: npm run build"},
   removeThrows |-> {FALSE}]

NoZip == [length |-> 0, magic |-> <<>>, entries |-> <<>>]

(***************************************************************************)
(* State                                                                   *)
(***************************************************************************)
VARIABLES
  buildStatuses,  \* the Map of the status tracker: build id -> status
  pc,             \* where the pipeline of each build id stands
  loop,           \* the build whose code holds the JavaScript thread, or 0
  responded,      \* the build ids whose POST /api/convert was answered
  zip,            \* zipFile.buffer of each build
  icon,           \* iconData of each build: "none", "ok" or "bad"
  err,            \* the error in flight in each pipeline
  disk,           \* the file system
  reply,          \* the last answer of GET /api/status
  cacheLog,       \* per manifest hash: cache installs and promotions finished
  sent,           \* the last answer of GET /api/download
  now,            \* Date.now()
  mtime,          \* last-modified time of the directories in temp and dist
  sweep,          \* where periodicCleanup stands
  world,          \* what the clients, npm, the toolchain and the disk can do
  refused,        \* the last answer to a POST /api/convert without a ZIP part
  client          \* the page of the browser that submitted the build

vars ==
  <<buildStatuses, pc, loop, responded, zip, icon, err, disk, reply, cacheLog,
    sent, now, mtime, sweep, world, refused, client>>

NoReply == [id |-> 0, phase |-> ""]

NoRefusal == [status |-> 0, error |-> ""]

\* the page before it has submitted anything; clock is the time in
\* milliseconds since the page was opened
NoClient == [currentBuildId |-> 0, attempts |-> 0, clock |-> 0, result |-> "idle"]

NoCacheLog == [installs |-> [h \in {} |-> 0], promotions |-> [h \in {} |-> 0]]

\* one more line of the log for hash h
logged(counts, h) ==
  [k \in DOMAIN counts \cup {h} |->
     IF k = h THEN (IF h \in DOMAIN counts THEN counts[h] ELSE 0) + 1 ELSE counts[k]]

NoAnswer == [id |-> 0, status |-> 0, file |-> <<>>]

NoSweep == [pc |-> "idle", now |-> 0, todo |-> {}]

\* the directories periodicCleanup looks at: those directly inside temp and dist
listed(fs, root) == {d \in readdir(fs, root) : d \in fs.d}

sweepable(fs) == listed(fs, tempDir) \cup listed(fs, distDir)

\* stats.mtime of those directories after a step from fs to fs2 at time t: a
\* directory is stamped when it is made and when an entry of it comes or goes
stamped(mt, fs, fs2, t) ==
  [d \in sweepable(fs2) |->
     IF d \in DOMAIN mt /\ readdir(fs, d) = readdir(fs2, d) THEN mt[d] ELSE t]

Init ==
  /\ buildStatuses = [x \in {} |-> 0]
  /\ pc = [b \in BuildIds |-> "idle"]
  /\ loop = 0
  /\ responded = {}
  /\ zip = [b \in BuildIds |-> NoZip]
  /\ icon = [b \in BuildIds |-> "none"]
  /\ err = [b \in BuildIds |-> NoError]
  /\ disk = InitDisk
  /\ reply = NoReply
  /\ cacheLog = NoCacheLog
  /\ sent = NoAnswer
  /\ now = 0
  /\ mtime = [d \in sweepable(InitDisk) |-> 0]
  /\ sweep = NoSweep
  /\ world = LeanWorld
  /\ refused = NoRefusal
  /\ client = NoClient

(***************************************************************************)
(* Status tracker                                                          *)
(***************************************************************************)
\* (updateBuildStatusMerged: a tracker that spreads the previous record of
\* the build into the new one)
updateBuildStatusMerged(statuses, buildId, phase, details) ==
  LET existing == IF buildId \in DOMAIN statuses THEN statuses[buildId]
                  ELSE [x \in {} |-> 0]
      status == details @@ [buildId |-> buildId, phase |-> phase,
                            description |-> PHASE_DESCRIPTIONS[phase]] @@ existing
  IN [k \in DOMAIN statuses \cup {buildId} |->
        IF k = buildId THEN status ELSE statuses[k]]

updateBuildStatus(statuses, buildId, phase, details) ==
  LET status == details @@ [buildId |-> buildId, phase |-> phase,
                            description |-> PHASE_DESCRIPTIONS[phase]]
  IN [k \in DOMAIN statuses \cup {buildId} |->
        IF k = buildId THEN status ELSE statuses[k]]

NoDetails == [x \in {} |-> 0]

getBuildStatus(statuses, buildId) ==
  IF buildId \in DOMAIN statuses THEN statuses[buildId] ELSE NoDetails

phaseOf(b) ==
  IF b \in DOMAIN buildStatuses THEN buildStatuses[b].phase ELSE "none"

(***************************************************************************)
(* POST /api/convert and the synchronous head of buildProcess              *)
(***************************************************************************)
uploadFileSizeLimit == 50 * 1024 * 1024

\* uuidv4() never repeats: the identifiers are handed out in order
freshBuildId(b) == pc[b] = "idle" /\ \A c \in BuildIds : c < b => pc[c] # "idle"

\* the handler accepts the upload and calls buildProcess
Convert(b, zipFile) ==
  /\ loop = 0
  /\ freshBuildId(b)
  /\ zipFile.length <= uploadFileSizeLimit
  /\ zip' = [zip EXCEPT ![b] = zipFile]
  /\ pc' = [pc EXCEPT ![b] = "bp_uploading"]
  /\ loop' = b
  /\ UNCHANGED <<buildStatuses, responded, icon, err, disk, reply,
                 cacheLog, mtime, sent, now, sweep, world, refused, client>>

\* the check placed after uuidv4() and a first tracker record
ConvertWithoutZipLate ==
  /\ loop = 0
  /\ \E iconData \in world.icons :
       refused' = [status |-> 400, error |-> "No ZIP file provided"]
  /\ \E b \in BuildIds :
       /\ freshBuildId(b)
       /\ buildStatuses' = updateBuildStatus(buildStatuses, b, BUILD_PHASES.FAILED,
                                             [error |-> <<"No ZIP file provided">>])
       /\ pc' = [pc EXCEPT ![b] = "done"]
  /\ UNCHANGED <<loop, responded, zip, icon, err, disk, reply,
                 cacheLog, mtime, sent, now, sweep, world, client>>

\* POST /api/convert without a zipFile part, with or without an icon: the
\* handler answers 400 before uuidv4() is called; multer keeps the parts in
\* memory
ConvertWithoutZip ==
  /\ loop = 0
  /\ \E iconData \in world.icons :
       refused' = [status |-> 400, error |-> "No ZIP file provided"]
  /\ UNCHANGED <<buildStatuses, pc, loop, responded, zip, icon, err, disk, reply,
                 cacheLog, mtime, sent, now, sweep, world, client>>

UpdUploading(b) ==
  /\ pc[b] = "bp_uploading"
  /\ buildStatuses' = updateBuildStatus(buildStatuses, b, BUILD_PHASES.UPLOADING, NoDetails)
  /\ pc' = [pc EXCEPT ![b] = "bp_extracting"]
  /\ UNCHANGED <<loop, responded, zip, icon, err, disk,
                 reply, cacheLog, mtime, sent, now, sweep, world, refused, client>>

UpdExtractingSkips(b) ==
  /\ pc[b] = "bp_extracting"
  /\ buildStatuses' = updateBuildStatus(buildStatuses, b, BUILD_PHASES.VALIDATING, NoDetails)
  /\ pc' = [pc EXCEPT ![b] = "pz_validateZipBuffer"]
  /\ UNCHANGED <<loop, responded, zip, icon, err, disk,
                 reply, cacheLog, mtime, sent, now, sweep, world, refused, client>>

UpdExtracting(b) ==
  /\ pc[b] = "bp_extracting"
  /\ buildStatuses' = updateBuildStatus(buildStatuses, b, BUILD_PHASES.EXTRACTING, NoDetails)
  /\ pc' = [pc EXCEPT ![b] = "pz_validateZipBuffer"]
  /\ UNCHANGED <<loop, responded, zip, icon, err, disk,
                 reply, cacheLog, mtime, sent, now, sweep, world, refused, client>>

(***************************************************************************)
(* FileProcessor.processZipFile                                            *)
(***************************************************************************)
\* validateZipBuffer runs in the caller's turn; processZipFile then stops at
\* its first await (ensureDir, or pathExists of the cleanup in the catch)
ValidateZipBuffer(b) ==
  /\ pc[b] = "pz_validateZipBuffer"
  /\ LET e == validateZipBuffer(zip[b])
     IN /\ err' = [err EXCEPT ![b] = e]
        /\ pc' = [pc EXCEPT ![b] = IF e = NoError THEN "pz_mkdir" ELSE "pz_cleanup"]
  /\ UNCHANGED <<buildStatuses, loop, responded, zip, icon, disk,
                 reply, cacheLog, mtime, sent, now, sweep, world, refused, client>>

\* res.json({ success: true, buildId }): buildProcess has returned its promise
Respond(b) ==
  /\ loop = b
  /\ b \notin responded
  /\ pc[b] \in {"pz_mkdir", "pz_cleanup"}
  /\ responded' = responded \cup {b}
  /\ loop' = 0
  /\ UNCHANGED <<buildStatuses, pc, zip, icon, err, disk,
                 reply, cacheLog, mtime, sent, now, sweep, world, refused, client>>

MkDirs(b) ==
  /\ loop = 0
  /\ pc[b] = "pz_mkdir"
  /\ disk' = ensureDir(disk, extractDirOf(b))
  /\ pc' = [pc EXCEPT ![b] = "pz_extract"]
  /\ UNCHANGED <<buildStatuses, loop, responded, zip, icon, err,
                 reply, cacheLog, sent, now, sweep, world, refused, client>>
  /\ mtime' = stamped(mtime, disk, disk', now)

\* the unzipper stream: every entry goes through the 'entry' handler
ExtractEntries(b) ==
  /\ loop = 0
  /\ pc[b] = "pz_extract"
  /\ disk' = extractEntries(disk, extractDirOf(b), zip[b].entries)
  /\ pc' = [pc EXCEPT ![b] = "pz_scan"]
  /\ UNCHANGED <<buildStatuses, loop, responded, zip, icon, err,
                 reply, cacheLog, sent, now, sweep, world, refused, client>>
  /\ mtime' = stamped(mtime, disk, disk', now)

\* the validation loop of extractZipFile over the files found on disk
ValidateExtracted(b) ==
  /\ loop = 0
  /\ pc[b] = "pz_scan"
  /\ \/ /\ extractionErrors(disk, extractDirOf(b)) = {}
        /\ pc' = [pc EXCEPT ![b] = "pz_nested"]
        /\ err' = err
     \/ \E e \in extractionErrors(disk, extractDirOf(b)) :
          /\ err' = [err EXCEPT ![b] = e]
          /\ pc' = [pc EXCEPT ![b] = "pz_cleanup"]
  /\ UNCHANGED <<buildStatuses, loop, responded, zip, icon, disk,
                 reply, cacheLog, mtime, sent, now, sweep, world, refused, client>>

HandleNestedStructure(b) ==
  /\ loop = 0
  /\ pc[b] = "pz_nested"
  /\ disk' \in handleNestedStructure(disk, extractDirOf(b))
  /\ pc' = [pc EXCEPT ![b] = "pz_validate"]
  /\ UNCHANGED <<buildStatuses, loop, responded, zip, icon, err,
                 reply, cacheLog, sent, now, sweep, world, refused, client>>
  /\ mtime' = stamped(mtime, disk, disk', now)

ValidateExtractedContent(b) ==
  /\ loop = 0
  /\ pc[b] = "pz_validate"
  /\ LET e == validateExtractedContent(disk, extractDirOf(b))
     IN /\ err' = [err EXCEPT ![b] = e]
        /\ pc' = [pc EXCEPT ![b] = IF e = NoError THEN "pz_index" ELSE "pz_cleanup"]
  /\ UNCHANGED <<buildStatuses, loop, responded, zip, icon, disk,
                 reply, cacheLog, mtime, sent, now, sweep, world, refused, client>>

\* ensureIndexHtml, then processZipFile returns buildDir; getAllFiles throws
\* when the content directory is not there
EnsureIndexHtml(b) ==
  /\ loop = 0
  /\ pc[b] = "pz_index"
  /\ IF pathExists(disk, extractDirOf(b))
     THEN /\ disk' \in ensureIndexHtml(disk, extractDirOf(b))
          /\ pc' = [pc EXCEPT ![b] = "pz_returned"]
          /\ err' = err
     ELSE /\ disk' = disk
          /\ pc' = [pc EXCEPT ![b] = "pz_cleanup"]
          /\ err' = [err EXCEPT ![b] = noSuchFile]
  /\ UNCHANGED <<buildStatuses, loop, responded, zip, icon,
                 reply, cacheLog, sent, now, sweep, world, refused, client>>
  /\ mtime' = stamped(mtime, disk, disk', now)

\* the catch of processZipFile: cleanup, whose own error is only logged, then
\* the original error is thrown again
ProcessZipCatch(b) ==
  /\ loop = 0
  /\ pc[b] = "pz_cleanup"
  /\ \E r \in cleanup(disk, b) :
       /\ r.threw => TRUE \in world.removeThrows
       /\ disk' = r.fs
  /\ pc' = [pc EXCEPT ![b] = "pz_thrown"]
  /\ UNCHANGED <<buildStatuses, loop, responded, zip, icon, err,
                 reply, cacheLog, sent, now, sweep, world, refused, client>>
  /\ mtime' = stamped(mtime, disk, disk', now)

ProcessZipFile(b) ==
  \/ ValidateZipBuffer(b)
  \/ MkDirs(b)
  \/ ExtractEntries(b)
  \/ ValidateExtracted(b)
  \/ HandleNestedStructure(b)
  \/ ValidateExtractedContent(b)
  \/ EnsureIndexHtml(b)
  \/ ProcessZipCatch(b)

(***************************************************************************)
(* ElectronBuilder                                                         *)
(***************************************************************************)
electronAppDir(b) == buildDir(b) \o << <<"electron-app">> >>

appContentDir(b) == electronAppDir(b) \o << <<"app">> >>

cacheDir == appRoot \o << <<".", "cache">> >>

nodeModulesCacheDir == cacheDir \o << <<"node_modules">> >>

hashFile == cacheDir \o << <<"package-hash", ".", "txt">> >>

tempInstallDir == cacheDir \o << <<"temp-install">> >>

packageJson(dir) == dir \o << <<"package", ".", "json">> >>

nodeModules(dir) == dir \o << <<"node_modules">> >>

\* what npm install leaves in node_modules: the packages of the manifest
installedPackages(dir) == nodeModules(dir) \o << <<"electron">> >>

generated(data) == [size |-> 1, data |-> data]

\* crypto.createHash('md5'): one digest per manifest content
md5(content) == <<"md5">> \o content

wrapCreateError(msg) ==
  <<"Failed to create Electron app: ">> \o msg
    \o <<". This usually indicates an issue with file permissions or disk space.">>

wrapBuildError(msg) == <<"Failed to build executable: ">> \o msg

\* createElectronApp up to fs.copy: the scaffold directory and the name check
CreateElectronApp(b) ==
  /\ loop = 0
  /\ pc[b] = "ce_mkdir"
  /\ IF ~canEnsureDir(disk, electronAppDir(b))
     THEN /\ err' = [err EXCEPT ![b] = wrapCreateError(<<"EEXIST: file already exists">>)]
          /\ pc' = [pc EXCEPT ![b] = "bp_catch"]
          /\ disk' = disk
     ELSE /\ disk' = ensureDir(disk, electronAppDir(b))
          /\ \E appName \in world.appNames :
               IF nameAccepted(appName)
               THEN /\ pc' = [pc EXCEPT ![b] = "ce_copy"]
                    /\ err' = err
               ELSE /\ err' = [err EXCEPT ![b] = wrapCreateError(<<"Invalid app name">>)]
                    /\ pc' = [pc EXCEPT ![b] = "bp_catch"]
  /\ UNCHANGED <<buildStatuses, loop, responded, zip, icon,
                 reply, cacheLog, sent, now, sweep, world, refused, client>>
  /\ mtime' = stamped(mtime, disk, disk', now)

\* generatePackageJson: the manifest names the icon when iconData was given
manifest(iconData) ==
  IF iconData # "none" THEN <<"package.json", "icon: app/icon.png">> ELSE <<"package.json">>

\* fs.copy of the content, generateMainJs and generatePackageJson; fs.copy
\* throws when the content is not there, and reading a template can fail
GenerateFiles(b) ==
  /\ loop = 0
  /\ pc[b] = "ce_copy"
  /\ \E templatesReadable \in world.templatesReadable :
       LET fs1 == copy(disk, extractDirOf(b), appContentDir(b))
           fs2 == writeFile(fs1, electronAppDir(b) \o << <<"main", ".", "js">> >>,
                            generated(<<"main.js">>))
           fs3 == writeFile(fs2, packageJson(electronAppDir(b)), generated(manifest(icon[b])))
       IN IF ~pathExists(disk, extractDirOf(b))
          THEN /\ disk' = disk
               /\ err' = [err EXCEPT ![b] = wrapCreateError(noSuchFile)]
               /\ pc' = [pc EXCEPT ![b] = "bp_catch"]
          ELSE IF templatesReadable
          THEN /\ disk' = fs3
               /\ pc' = [pc EXCEPT ![b] = IF icon[b] # "none" THEN "ce_icon" ELSE "ic_check"]
               /\ err' = err
          ELSE /\ disk' = fs1
               /\ err' = [err EXCEPT ![b] =
                            wrapCreateError(<<"ENOENT: no such file or directory, open main.js.template">>)]
               /\ pc' = [pc EXCEPT ![b] = "bp_catch"]
  /\ UNCHANGED <<buildStatuses, loop, responded, zip, icon,
                 reply, cacheLog, sent, now, sweep, world, refused, client>>
  /\ mtime' = stamped(mtime, disk, disk', now)

\* processCustomIcon without its try/catch: the failure of sharp reaches the
\* catch clause of createElectronApp
ProcessCustomIconThrows(b) ==
  /\ loop = 0
  /\ pc[b] = "ce_icon"
  /\ IF icon[b] = "ok"
     THEN /\ disk' = writeFile(ensureDir(disk, appContentDir(b)),
                               appContentDir(b) \o << <<"icon", ".", "png">> >>,
                               generated(<<"icon.png">>))
          /\ pc' = [pc EXCEPT ![b] = "ic_check"]
          /\ err' = err
     ELSE /\ disk' = ensureDir(disk, appContentDir(b))
          /\ pc' = [pc EXCEPT ![b] = "bp_catch"]
          /\ err' = [err EXCEPT ![b] =
                       wrapCreateError(<<"Input buffer contains unsupported image format">>)]
  /\ UNCHANGED <<buildStatuses, loop, responded, zip, icon,
                 reply, cacheLog, sent, now, sweep, world, refused, client>>
  /\ mtime' = stamped(mtime, disk, disk', now)

\* processCustomIcon: a failure of sharp is logged, nothing is thrown
ProcessCustomIcon(b) ==
  /\ loop = 0
  /\ pc[b] = "ce_icon"
  /\ disk' = IF icon[b] = "ok"
             THEN writeFile(ensureDir(disk, appContentDir(b)),
                            appContentDir(b) \o << <<"icon", ".", "png">> >>,
                            generated(<<"icon.png">>))
             ELSE ensureDir(disk, appContentDir(b))
  /\ pc' = [pc EXCEPT ![b] = "ic_check"]
  /\ UNCHANGED <<buildStatuses, loop, responded, zip, icon, err,
                 reply, cacheLog, sent, now, sweep, world, refused, client>>
  /\ mtime' = stamped(mtime, disk, disk', now)

packageHash(fs, b) == md5(fs.f[packageJson(electronAppDir(b))].data)

\* the packageHash a call of ensureCachedNodeModules holds once it has read
\* package.json: the hash of the manifest generated for the build
heldPackageHash(b) == md5(manifest(icon[b]))

cacheValid(fs, b) ==
  /\ pathExists(fs, nodeModulesCacheDir)
  /\ pathExists(fs, hashFile)
  /\ hashFile \in DOMAIN fs.f
  /\ fs.f[hashFile].data = packageHash(fs, b)

\* ensureCachedNodeModules: the cache is compared with the manifest hash; when
\* package.json cannot be read the catch of installDependencies starts the
\* fallback install at once
CheckCache(b) ==
  /\ loop = 0
  /\ pc[b] = "ic_check"
  /\ disk' = ensureDir(disk, cacheDir)
  /\ IF pathExists(disk, packageJson(electronAppDir(b)))
     THEN /\ pc' = [pc EXCEPT ![b] = IF cacheValid(disk, b) THEN "id_copy" ELSE "ic_prepare"]
          /\ loop' = loop
     ELSE /\ pc' = [pc EXCEPT ![b] = "fb_exec"]
          /\ loop' = b
  /\ UNCHANGED <<buildStatuses, responded, zip, icon, err,
                 reply, cacheLog, sent, now, sweep, world, refused, client>>
  /\ mtime' = stamped(mtime, disk, disk', now)

\* temp-install gets the manifest, then execSync('npm install') starts there
\* and keeps the thread; when the manifest is not there fs.copy throws and the
\* fallback install starts
CacheInstallBegin(b) ==
  /\ loop = 0
  /\ pc[b] = "ic_prepare"
  /\ IF pathExists(disk, packageJson(electronAppDir(b)))
     THEN /\ disk' = writeFile(ensureDir(disk, tempInstallDir), packageJson(tempInstallDir),
                               disk.f[packageJson(electronAppDir(b))])
          /\ pc' = [pc EXCEPT ![b] = "ic_exec"]
     ELSE /\ disk' = ensureDir(disk, tempInstallDir)
          /\ pc' = [pc EXCEPT ![b] = "fb_exec"]
  /\ loop' = b
  /\ UNCHANGED <<buildStatuses, responded, zip, icon, err,
                 reply, cacheLog, sent, now, sweep, world, refused, client>>
  /\ mtime' = stamped(mtime, disk, disk', now)

\* installDependencies without its fallback: a failed cache install is thrown
\* to createElectronApp
CacheInstallEndThrows(b) ==
  /\ pc[b] = "ic_exec"
  /\ \E exit \in world.npmExits :
       IF exit = "ok"
       THEN /\ disk' = writeFile(ensureDir(disk, nodeModules(tempInstallDir)),
                                 installedPackages(tempInstallDir),
                                 generated(disk.f[packageJson(tempInstallDir)].data))
            /\ pc' = [pc EXCEPT ![b] = "ic_promote"]
            /\ err' = err
            /\ cacheLog' = [cacheLog EXCEPT
                              !.installs = logged(@, heldPackageHash(b))]
       ELSE /\ disk' = disk
            /\ pc' = [pc EXCEPT ![b] = "bp_catch"]
            /\ err' = [err EXCEPT ![b] =
                         wrapCreateError(<<"Failed to ensure cached node_modules: ",
                                           "Command failed: npm install">>)]
            /\ cacheLog' = cacheLog
  /\ loop' = 0
  /\ UNCHANGED <<buildStatuses, responded, zip, icon, reply, sent, now, sweep, world, refused, client>>
  /\ mtime' = stamped(mtime, disk, disk', now)

\* npm install in temp-install ends; when it fails or times out the catch of
\* installDependencies starts the fallback install at once
CacheInstallEnd(b) ==
  /\ pc[b] = "ic_exec"
  /\ \E exit \in world.npmExits :
       IF exit = "ok"
       THEN /\ disk' = writeFile(ensureDir(disk, nodeModules(tempInstallDir)),
                                 installedPackages(tempInstallDir),
                                 generated(disk.f[packageJson(tempInstallDir)].data))
            /\ loop' = 0
            /\ pc' = [pc EXCEPT ![b] = "ic_promote"]
            /\ cacheLog' = [cacheLog EXCEPT
                              !.installs = logged(@, heldPackageHash(b))]
       ELSE /\ disk' = disk
            /\ loop' = loop
            /\ pc' = [pc EXCEPT ![b] = "fb_exec"]
            /\ cacheLog' = cacheLog
  /\ UNCHANGED <<buildStatuses, responded, zip, icon, err, reply, sent, now, sweep, world, refused, client>>
  /\ mtime' = stamped(mtime, disk, disk', now)

\* The promotion of ensureCachedNodeModules is four awaited calls, and other
\* builds run between them.  First the old cache is removed, if there is one.
RemoveOldCache(b) ==
  /\ loop = 0
  /\ pc[b] = "ic_promote"
  /\ disk' = remove(disk, nodeModulesCacheDir)
  /\ pc' = [pc EXCEPT ![b] = "ic_move"]
  /\ UNCHANGED <<buildStatuses, loop, responded, zip, icon, err, reply, cacheLog,
                 sent, now, sweep, world, refused, client>>
  /\ mtime' = stamped(mtime, disk, disk', now)

\* fs.move of temp-install/node_modules to the cache: it throws when the
\* source is gone or the destination is there again, and the catch of
\* installDependencies starts the fallback install
MoveToCache(b) ==
  /\ loop = 0
  /\ pc[b] = "ic_move"
  /\ IF pathExists(disk, nodeModules(tempInstallDir)) /\ ~pathExists(disk, nodeModulesCacheDir)
     THEN /\ disk' = move(disk, nodeModules(tempInstallDir), nodeModulesCacheDir)
          /\ pc' = [pc EXCEPT ![b] = "ic_hash"]
          /\ loop' = loop
     ELSE /\ disk' = disk
          /\ pc' = [pc EXCEPT ![b] = "fb_exec"]
          /\ loop' = b
  /\ UNCHANGED <<buildStatuses, responded, zip, icon, err, reply, cacheLog,
                 sent, now, sweep, world, refused, client>>
  /\ mtime' = stamped(mtime, disk, disk', now)

\* fs.writeFile(hashFile, packageHash)
SavePackageHash(b) ==
  /\ loop = 0
  /\ pc[b] = "ic_hash"
  /\ disk' = writeFile(ensureDir(disk, cacheDir), hashFile, generated(heldPackageHash(b)))
  /\ pc' = [pc EXCEPT ![b] = "ic_tidy"]
  /\ cacheLog' = [cacheLog EXCEPT !.promotions = logged(@, heldPackageHash(b))]
  /\ UNCHANGED <<buildStatuses, loop, responded, zip, icon, err, reply,
                 sent, now, sweep, world, refused, client>>
  /\ mtime' = stamped(mtime, disk, disk', now)

\* fs.remove(tempDir)
RemoveTempInstall(b) ==
  /\ loop = 0
  /\ pc[b] = "ic_tidy"
  /\ disk' = remove(disk, tempInstallDir)
  /\ pc' = [pc EXCEPT ![b] = "id_copy"]
  /\ UNCHANGED <<buildStatuses, loop, responded, zip, icon, err, reply, cacheLog,
                 sent, now, sweep, world, refused, client>>
  /\ mtime' = stamped(mtime, disk, disk', now)

PromoteCache(b) ==
  \/ RemoveOldCache(b)
  \/ MoveToCache(b)
  \/ SavePackageHash(b)
  \/ RemoveTempInstall(b)

\* installDependencies: fs.copy of the cached node_modules into the project
CopyCache(b) ==
  /\ loop = 0
  /\ pc[b] = "id_copy"
  /\ IF pathExists(disk, nodeModulesCacheDir)
     THEN /\ disk' = copy(disk, nodeModulesCacheDir, nodeModules(electronAppDir(b)))
          /\ pc' = [pc EXCEPT ![b] = "ce_returned"]
          /\ loop' = loop
     ELSE /\ disk' = disk
          /\ pc' = [pc EXCEPT ![b] = "fb_exec"]
          /\ loop' = b
  /\ UNCHANGED <<buildStatuses, responded, zip, icon, err,
                 reply, cacheLog, sent, now, sweep, world, refused, client>>
  /\ mtime' = stamped(mtime, disk, disk', now)

\* the fallback execSync('npm install') in the project directory ends; it
\* cannot start when that directory is not there, and installs nothing of the
\* project when the manifest is not there
FallbackInstallEnd(b) ==
  /\ pc[b] = "fb_exec"
  /\ \E exit \in world.npmExits :
       IF ~pathExists(disk, electronAppDir(b))
       THEN /\ disk' = disk
            /\ err' = [err EXCEPT ![b] =
                         wrapCreateError(<<"Failed to install dependencies: ",
                                           "spawnSync /bin/sh ENOENT">>)]
            /\ pc' = [pc EXCEPT ![b] = "bp_catch"]
       ELSE IF exit = "ok"
       THEN /\ disk' = IF pathExists(disk, packageJson(electronAppDir(b)))
                       THEN writeFile(ensureDir(disk, nodeModules(electronAppDir(b))),
                                      installedPackages(electronAppDir(b)),
                                      generated(disk.f[packageJson(electronAppDir(b))].data))
                       ELSE disk
            /\ pc' = [pc EXCEPT ![b] = "ce_returned"]
            /\ err' = err
       ELSE /\ disk' = disk
            /\ err' = [err EXCEPT ![b] =
                         wrapCreateError(<<"Failed to install dependencies: ",
                                           "Command failed: npm install">>)]
            /\ pc' = [pc EXCEPT ![b] = "bp_catch"]
  /\ loop' = 0
  /\ UNCHANGED <<buildStatuses, responded, zip, icon, reply, cacheLog, sent, now, sweep, world, refused, client>>
  /\ mtime' = stamped(mtime, disk, disk', now)

\* buildExecutable: the output directory is made, then execSync runs the
\* toolchain and keeps the thread
BuildCommandBegin(b) ==
  /\ loop = 0
  /\ pc[b] = "be_mkdir"
  /\ disk' = ensureDir(disk, outputDir(b))
  /\ loop' = b
  /\ pc' = [pc EXCEPT ![b] = "be_exec"]
  /\ UNCHANGED <<buildStatuses, responded, zip, icon, err,
                 reply, cacheLog, sent, now, sweep, world, refused, client>>
  /\ mtime' = stamped(mtime, disk, disk', now)

setupExe == <<"setup-ia32", ".", "exe">>

portableExe == <<"app", ".", "exe">>

\* where the toolchain can leave its executables
toolchainOutput(b, kind) ==
  CASE kind = "setup" -> {electronAppDir(b) \o << <<"dist">>, setupExe >>}
    [] kind = "portable" ->
         {electronAppDir(b) \o << <<"dist">>, <<"win-unpacked">>, portableExe >>}
    [] kind = "parent" -> {buildDir(b) \o << <<"dist">>, setupExe >>}
    [] kind = "both" -> {electronAppDir(b) \o << <<"dist">>, setupExe >>,
                         buildDir(b) \o << <<"dist">>, portableExe >>}
    [] OTHER -> {}

RECURSIVE writeAll(_, _, _)
writeAll(fs, locs, v) ==
  IF locs = {} THEN fs
  ELSE LET l == CHOOSE x \in locs : TRUE
       IN writeAll(writeFile(ensureDir(fs, dirname(l)), l, v), locs \ {l}, v)

\* the toolchain exits zero, exits non-zero, or is killed at the timeout; it
\* cannot start when the project directory is not there, and has no build
\* script to run when the manifest is not there
BuildCommandEnd(b) ==
  /\ pc[b] = "be_exec"
  /\ \/ \E kind \in world.toolchainOutputs :
          /\ pathExists(disk, packageJson(electronAppDir(b)))
          /\ disk' = writeAll(disk, toolchainOutput(b, kind), generated(<<"exe">>))
          /\ pc' = [pc EXCEPT ![b] = "be_find"]
          /\ err' = err
     \/ \E reason \in world.toolchainFailures \cup {"spawnSync /bin/sh ENOENT"} :
          /\ reason = "spawnSync /bin/sh ENOENT" <=> ~pathExists(disk, electronAppDir(b))
          /\ disk' = disk
          /\ err' = [err EXCEPT ![b] = wrapBuildError(<<"Build command failed: ", reason>>)]
          /\ pc' = [pc EXCEPT ![b] = "bp_catch"]
  /\ loop' = 0
  /\ UNCHANGED <<buildStatuses, responded, zip, icon, reply, cacheLog, sent, now, sweep, world, refused, client>>
  /\ mtime' = stamped(mtime, disk, disk', now)

findBuiltExecutableInDirectory(fs, dir) ==
  {p \in getAllFiles(fs, dir) : lowerAll(extname(p[Len(p)])) = <<".", "exe">>}

RECURSIVE copyInto(_, _, _)
copyInto(fs, locs, dir) ==
  IF locs = {} THEN fs
  ELSE LET l == CHOOSE x \in locs : TRUE
       IN copyInto(copy(fs, l, dir \o <<l[Len(l)]>>), locs \ {l}, dir)

\* a search that takes the executables of both locations together
CollectExecutablesEverywhere(b) ==
  /\ loop = 0
  /\ pc[b] = "be_find"
  /\ LET builtFiles == findBuiltExecutableInDirectory(disk, electronAppDir(b) \o << <<"dist">> >>)
         parentBuiltFiles == findBuiltExecutableInDirectory(disk, buildDir(b) \o << <<"dist">> >>)
         found == builtFiles \cup parentBuiltFiles
     IN IF found = {}
        THEN /\ disk' = disk
             /\ err' = [err EXCEPT ![b] =
                          wrapBuildError(<<"No executable files found after build">>)]
             /\ pc' = [pc EXCEPT ![b] = "bp_catch"]
        ELSE /\ disk' = copyInto(disk, found, outputDir(b))
             /\ err' = err
             /\ pc' = [pc EXCEPT ![b] = "be_returned"]
  /\ UNCHANGED <<buildStatuses, loop, responded, zip, icon,
                 reply, cacheLog, sent, now, sweep, world, refused, client>>
  /\ mtime' = stamped(mtime, disk, disk', now)

\* the executables are looked up in the project's dist, then in the parent's
CollectExecutables(b) ==
  /\ loop = 0
  /\ pc[b] = "be_find"
  /\ LET builtFiles == findBuiltExecutableInDirectory(disk, electronAppDir(b) \o << <<"dist">> >>)
         parentBuiltFiles == findBuiltExecutableInDirectory(disk, buildDir(b) \o << <<"dist">> >>)
         found == IF builtFiles # {} THEN builtFiles ELSE parentBuiltFiles
     IN IF found = {}
        THEN /\ disk' = disk
             /\ err' = [err EXCEPT ![b] =
                          wrapBuildError(<<"No executable files found after build">>)]
             /\ pc' = [pc EXCEPT ![b] = "bp_catch"]
        ELSE /\ disk' = copyInto(disk, found, outputDir(b))
             /\ err' = err
             /\ pc' = [pc EXCEPT ![b] = "be_returned"]
  /\ UNCHANGED <<buildStatuses, loop, responded, zip, icon,
                 reply, cacheLog, sent, now, sweep, world, refused, client>>
  /\ mtime' = stamped(mtime, disk, disk', now)

(***************************************************************************)
(* buildProcess after the intake                                           *)
(***************************************************************************)
\* processZipFile returned: VALIDATING, then iconData is taken from the upload
UpdValidating(b) ==
  /\ loop = 0
  /\ pc[b] = "pz_returned"
  /\ buildStatuses' = updateBuildStatus(buildStatuses, b, BUILD_PHASES.VALIDATING, NoDetails)
  /\ icon' \in {[icon EXCEPT ![b] = k] : k \in world.icons}
  /\ loop' = b
  /\ pc' = [pc EXCEPT ![b] = "bp_generating"]
  /\ UNCHANGED <<responded, zip, err, disk, reply, cacheLog, mtime, sent, now, sweep, world, refused, client>>

UpdGenerating(b) ==
  /\ pc[b] = "bp_generating"
  /\ buildStatuses' = updateBuildStatus(buildStatuses, b, BUILD_PHASES.GENERATING, NoDetails)
  /\ loop' = 0
  /\ pc' = [pc EXCEPT ![b] = "ce_mkdir"]
  /\ UNCHANGED <<responded, zip, icon, err, disk, reply, cacheLog, mtime, sent, now, sweep, world, refused, client>>

UpdInstalling(b) ==
  /\ loop = 0
  /\ pc[b] = "ce_returned"
  /\ buildStatuses' = updateBuildStatus(buildStatuses, b, BUILD_PHASES.INSTALLING, NoDetails)
  /\ loop' = b
  /\ pc' = [pc EXCEPT ![b] = "bp_building"]
  /\ UNCHANGED <<responded, zip, icon, err, disk, reply, cacheLog, mtime, sent, now, sweep, world, refused, client>>

UpdBuilding(b) ==
  /\ pc[b] = "bp_building"
  /\ buildStatuses' = updateBuildStatus(buildStatuses, b, BUILD_PHASES.BUILDING,
                         [note |-> "This may take 3-5 minutes", estimatedTime |-> "5 minutes"])
  /\ loop' = 0
  /\ pc' = [pc EXCEPT ![b] = "be_mkdir"]
  /\ UNCHANGED <<responded, zip, icon, err, disk, reply, cacheLog, mtime, sent, now, sweep, world, refused, client>>

UpdDistributing(b) ==
  /\ loop = 0
  /\ pc[b] = "be_returned"
  /\ buildStatuses' = updateBuildStatus(buildStatuses, b, BUILD_PHASES.DISTRIBUTING, NoDetails)
  /\ loop' = b
  /\ pc' = [pc EXCEPT ![b] = "bp_completed"]
  /\ UNCHANGED <<responded, zip, icon, err, disk, reply, cacheLog, mtime, sent, now, sweep, world, refused, client>>

\* the .catch the handler puts on the promise of buildProcess
\* (onBuildProcessSettledAnyway: a handler that runs on every settlement)
onBuildProcessSettledAnyway(statuses, b, rejection) ==
  updateBuildStatus(statuses, b, BUILD_PHASES.FAILED, [error |-> rejection])

onBuildProcessSettled(statuses, b, rejection) ==
  IF rejection = NoError THEN statuses
  ELSE updateBuildStatus(statuses, b, BUILD_PHASES.FAILED, [error |-> rejection])

\* buildProcess returning without its last updateBuildStatus
UpdCompletedForgotten(b) ==
  /\ pc[b] = "bp_completed"
  /\ loop' = 0
  /\ pc' = [pc EXCEPT ![b] = "done"]
  /\ UNCHANGED <<buildStatuses, responded, zip, icon, err, disk, reply, cacheLog,
                 mtime, sent, now, sweep, world, refused, client>>

UpdCompleted(b) ==
  /\ pc[b] = "bp_completed"
  /\ buildStatuses' =
       onBuildProcessSettled(
         updateBuildStatus(buildStatuses, b, BUILD_PHASES.COMPLETED,
                           [downloadUrl |-> <<"/api/download/", ToString(b)>>]),
         b, NoError)
  /\ loop' = 0
  /\ pc' = [pc EXCEPT ![b] = "done"]
  /\ UNCHANGED <<responded, zip, icon, err, disk, reply, cacheLog, mtime, sent, now, sweep, world, refused, client>>

\* the catch of buildProcess records the failure with the caught message
RecordFailureGeneric(b) ==
  /\ loop = 0
  /\ pc[b] \in {"pz_thrown", "bp_catch"}
  /\ buildStatuses' = updateBuildStatus(buildStatuses, b, BUILD_PHASES.FAILED,
                                        [error |-> <<"Build failed">>])
  /\ pc' = [pc EXCEPT ![b] = "bp_cleanup"]
  /\ UNCHANGED <<loop, responded, zip, icon, err, disk,
                 reply, cacheLog, mtime, sent, now, sweep, world, refused, client>>

RecordFailure(b) ==
  /\ loop = 0
  /\ pc[b] \in {"pz_thrown", "bp_catch"}
  /\ buildStatuses' = updateBuildStatus(buildStatuses, b, BUILD_PHASES.FAILED,
                                        [error |-> err[b]])
  /\ pc' = [pc EXCEPT ![b] = "bp_cleanup"]
  /\ UNCHANGED <<loop, responded, zip, icon, err, disk,
                 reply, cacheLog, mtime, sent, now, sweep, world, refused, client>>

\* what leaves the try/catch around the cleanup of a failed build
\* (cleanupRejectionEscapes: a cleanup call outside the inner try)
cleanupRejectionEscapes(outcome) ==
  IF outcome.threw THEN <<"EBUSY: resource busy or locked, rmdir">> ELSE NoError

cleanupRejection(outcome) == NoError

\* the cleanup of a failed build, after which buildProcess is settled
CleanupFailedBuild(b) ==
  /\ loop = 0
  /\ pc[b] = "bp_cleanup"
  /\ \E r \in cleanup(disk, b) :
       /\ r.threw => TRUE \in world.removeThrows
       /\ disk' = r.fs
       /\ buildStatuses' = onBuildProcessSettled(buildStatuses, b, cleanupRejection(r))
  /\ pc' = [pc EXCEPT ![b] = "done"]
  /\ UNCHANGED <<loop, responded, zip, icon, err, reply, cacheLog, sent, now, sweep, world, refused, client>>
  /\ mtime' = stamped(mtime, disk, disk', now)

(***************************************************************************)
(* GET /api/status/:buildId                                                *)
(***************************************************************************)
\* (statusResponseFromDisk: a handler that looks at the directories only)
statusResponseFromDisk(statuses, fs, buildId) ==
  IF pathExists(fs, outputDir(buildId)) THEN BUILD_PHASES.COMPLETED
  ELSE IF pathExists(fs, buildDir(buildId)) THEN BUILD_PHASES.BUILDING
       ELSE "not_found"

\* (statusResponseTrackerOnly: the answer without the file system fallback)
statusResponseTrackerOnly(statuses, fs, buildId) ==
  IF buildId \in DOMAIN statuses THEN statuses[buildId].phase ELSE "not_found"

statusResponse(statuses, fs, buildId) ==
  IF buildId \in DOMAIN statuses THEN statuses[buildId].phase
  ELSE IF pathExists(fs, outputDir(buildId)) THEN BUILD_PHASES.COMPLETED
       ELSE IF pathExists(fs, buildDir(buildId)) THEN BUILD_PHASES.BUILDING
            ELSE "not_found"

StatusQuery(buildId) ==
  /\ loop = 0
  /\ reply' = [id |-> buildId, phase |-> statusResponse(buildStatuses, disk, buildId)]
  /\ UNCHANGED <<buildStatuses, pc, loop, responded, zip, icon, err,
                 disk, cacheLog, mtime, sent, now, sweep, world, refused, client>>

(***************************************************************************)
(* GET /api/download/:buildId                                              *)
(***************************************************************************)
\* the file name tokens that end in 'ia32'
endsWithIa32(tok) == tok \in {"ia32", "setup-ia32"}

\* file.endsWith('ia32.exe')
endsWithIa32Exe(name) ==
  /\ Len(name) >= 3
  /\ name[Len(name)] = "exe"
  /\ name[Len(name) - 1] = "."
  /\ endsWithIa32(name[Len(name) - 2])

\* the answers of the handler: readdir throws when dist/<buildId> is not a
\* directory and the catch answers 500; find takes the first name in readdir
\* order that ends in 'ia32.exe'
downloadResponse(fs, buildId) ==
  LET executablePath == outputDir(buildId)
  IN IF executablePath \notin fs.d
     THEN {[id |-> buildId, status |-> 500, file |-> <<>>]}
     ELSE LET found == {p \in readdir(fs, executablePath) : endsWithIa32Exe(p[Len(p)])}
          IN IF found = {} THEN {[id |-> buildId, status |-> 404, file |-> <<>>]}
             ELSE {[id |-> buildId, status |-> 200, file |-> p[Len(p)]] : p \in found}

Download(buildId) ==
  /\ loop = 0
  /\ sent' \in downloadResponse(disk, buildId)
  /\ UNCHANGED <<buildStatuses, pc, loop, responded, zip, icon, err, disk, reply,
                 cacheLog, mtime, now, sweep, world, refused, client>>

(***************************************************************************)
(* FileProcessor.periodicCleanup, called every 15 minutes                  *)
(***************************************************************************)
maxAge == 2 * 60 * 60 * 1000

hour == 60 * 60 * 1000

\* (expiredAlways: a sweep that does not look at the age)
expiredAlways(t, mt) == TRUE

\* now - stats.mtime.getTime() > maxAge
expired(t, mt) == t - mt > maxAge

\* const now = Date.now(), then the directories of temp are listed
SweepBegin ==
  /\ loop = 0
  /\ sweep.pc = "idle"
  /\ sweep' = IF pathExists(disk, tempDir)
              THEN [pc |-> "temp", now |-> now, todo |-> listed(disk, tempDir)]
              ELSE [pc |-> "dist", now |-> now,
                    todo |-> IF pathExists(disk, distDir) THEN listed(disk, distDir) ELSE {}]
  /\ UNCHANGED <<buildStatuses, pc, loop, responded, zip, icon, err, disk, reply,
                 cacheLog, sent, now, mtime, world, refused, client>>

\* one turn of a for loop: fs.stat, and fs.remove when the directory is old;
\* fs.stat throws when the directory has gone, and the catch ends the sweep
SweepEntry(dirPath) ==
  /\ loop = 0
  /\ sweep.pc \in {"temp", "dist"}
  /\ dirPath \in sweep.todo
  /\ IF ~pathExists(disk, dirPath)
     THEN /\ sweep' = NoSweep
          /\ disk' = disk
     ELSE /\ sweep' = [sweep EXCEPT !.todo = @ \ {dirPath}]
          /\ disk' = IF expired(sweep.now, mtime[dirPath]) THEN remove(disk, dirPath)
                     ELSE disk
  /\ mtime' = stamped(mtime, disk, disk', now)
  /\ UNCHANGED <<buildStatuses, pc, loop, responded, zip, icon, err, reply,
                 cacheLog, sent, now, world, refused, client>>

\* the loop over temp is over: the directories of dist are listed
SweepDist ==
  /\ loop = 0
  /\ sweep.pc = "temp"
  /\ sweep.todo = {}
  /\ sweep' = [sweep EXCEPT !.pc = "dist",
                            !.todo = IF pathExists(disk, distDir)
                                     THEN listed(disk, distDir) ELSE {}]
  /\ UNCHANGED <<buildStatuses, pc, loop, responded, zip, icon, err, disk, reply,
                 cacheLog, sent, now, mtime, world, refused, client>>

\* 'Periodic cleanup completed'
SweepEnd ==
  /\ loop = 0
  /\ sweep.pc = "dist"
  /\ sweep.todo = {}
  /\ sweep' = NoSweep
  /\ UNCHANGED <<buildStatuses, pc, loop, responded, zip, icon, err, disk, reply,
                 cacheLog, sent, now, mtime, world, refused, client>>

periodicCleanup ==
  \/ SweepBegin
  \/ \E dirPath \in sweepable(disk) \cup sweep.todo : SweepEntry(dirPath)
  \/ SweepDist
  \/ SweepEnd

\* how far the clock is followed
MaxTime == 3

\* An hour passes while the thread runs no code of the builds followed here:
\* it is idle, or it serves other requests and waits in the execSync calls of
\* other builds.  No subprocess of a followed build runs meanwhile, so each of
\* them stays within its timeout.
Tick ==
  /\ loop = 0
  /\ now < MaxTime * hour
  /\ now' = now + hour
  /\ UNCHANGED <<buildStatuses, pc, loop, responded, zip, icon, err, disk, reply,
                 cacheLog, sent, mtime, sweep, world, refused, client>>

(***************************************************************************)
(* The server                                                              *)
(***************************************************************************)
Pipeline(b) ==
  \/ UpdUploading(b)
  \/ UpdExtracting(b)
  \/ Respond(b)
  \/ ProcessZipFile(b)
  \/ UpdValidating(b)
  \/ UpdGenerating(b)
  \/ CreateElectronApp(b)
  \/ GenerateFiles(b)
  \/ ProcessCustomIcon(b)
  \/ CheckCache(b)
  \/ CacheInstallBegin(b)
  \/ CacheInstallEnd(b)
  \/ PromoteCache(b)
  \/ CopyCache(b)
  \/ FallbackInstallEnd(b)
  \/ UpdInstalling(b)
  \/ UpdBuilding(b)
  \/ BuildCommandBegin(b)
  \/ BuildCommandEnd(b)
  \/ CollectExecutables(b)
  \/ UpdDistributing(b)
  \/ UpdCompleted(b)
  \/ RecordFailure(b)
  \/ CleanupFailedBuild(b)

Next ==
  \/ \E b \in BuildIds :
       \/ \E zipFile \in world.uploads : Convert(b, zipFile)
       \/ Pipeline(b)
  \/ \E buildId \in world.polled : StatusQuery(buildId)

Spec == Init /\ [][Next]_vars

\* one build in the full world, and a client polling the status endpoint and
\* asking for the executable
InitBuild ==
  /\ buildStatuses = [x \in {} |-> 0]
  /\ pc = [b \in BuildIds |-> "idle"]
  /\ loop = 0
  /\ responded = {}
  /\ zip = [b \in BuildIds |-> NoZip]
  /\ icon = [b \in BuildIds |-> "none"]
  /\ err = [b \in BuildIds |-> NoError]
  /\ disk = InitDisk
  /\ reply = NoReply
  /\ cacheLog = NoCacheLog
  /\ sent = NoAnswer
  /\ now = 0
  /\ mtime = [d \in sweepable(InitDisk) |-> 0]
  /\ sweep = NoSweep
  /\ world = FullWorld
  /\ refused = NoRefusal
  /\ client = NoClient

NextBuild ==
  \/ \E zipFile \in world.uploads : Convert(1, zipFile)
  \/ ConvertWithoutZip
  \/ Pipeline(1)
  \/ \E buildId \in world.polled : StatusQuery(buildId)
  \/ \E buildId \in world.polled : Download(buildId)

SpecBuild == InitBuild /\ [][NextBuild]_vars

\* the pipeline of b has a step to take: buildProcess was called and has not
\* settled, and no other build holds the thread
ready(b) == pc[b] \notin {"idle", "done"} /\ loop \in {0, b}

\* The event loop runs every continuation that is ready, every file system
\* call returns, and execSync returns when the subprocess exits or is killed
\* at its timeout: weak fairness of the pipeline, WF_vars(Pipeline(1)), with
\* ENABLED <<Pipeline(1)>>_vars written out as ready(1).
SpecBuildFair ==
  SpecBuild /\ ([]<>(~ready(1)) \/ []<><<Pipeline(1)>>_vars)

(***************************************************************************)
(* The intake on its own: processZipFile(zipBuffer, 1) on every buffer     *)
(***************************************************************************)
InitIntake ==
  /\ buildStatuses = [x \in {} |-> 0]
  /\ pc = [b \in BuildIds |-> IF b = 1 THEN "pz_validateZipBuffer" ELSE "idle"]
  /\ loop = 0
  /\ responded = {}
  /\ zip \in {[b \in BuildIds |-> IF b = 1 THEN z ELSE NoZip] : z \in IntakeArchives}
  /\ icon = [b \in BuildIds |-> "none"]
  /\ err = [b \in BuildIds |-> NoError]
  /\ disk = InitDisk
  /\ reply = NoReply
  /\ cacheLog = NoCacheLog
  /\ sent = NoAnswer
  /\ now = 0
  /\ mtime = [d \in sweepable(InitDisk) |-> 0]
  /\ sweep = NoSweep
  /\ world = FullWorld
  /\ refused = NoRefusal
  /\ client = NoClient

NextIntake == ProcessZipFile(1)

SpecIntake == InitIntake /\ [][NextIntake]_vars

(***************************************************************************)
(* One build, the sweeper and the clock                                    *)
(***************************************************************************)
SweepWorld ==
  [uploads |-> {Zip(<<indexHtml, styleCss>>), Zip(<<indexHtml, runBat>>)},
   polled |-> {1},
   icons |-> {"ok"},
   appNames |-> {NoAppName},
   templatesReadable |-> {TRUE},
   npmExits |-> {"ok"},
   toolchainOutputs |-> {"setup"},
   toolchainFailures |-> {"Command failed: npm run build"},
   removeThrows |-> {FALSE}]

InitSweep ==
  /\ buildStatuses = [x \in {} |-> 0]
  /\ pc = [b \in BuildIds |-> "idle"]
  /\ loop = 0
  /\ responded = {}
  /\ zip = [b \in BuildIds |-> NoZip]
  /\ icon = [b \in BuildIds |-> "none"]
  /\ err = [b \in BuildIds |-> NoError]
  /\ disk = InitDisk
  /\ reply = NoReply
  /\ cacheLog = NoCacheLog
  /\ sent = NoAnswer
  /\ now = 0
  /\ mtime = [d \in sweepable(InitDisk) |-> 0]
  /\ sweep = NoSweep
  /\ world = SweepWorld
  /\ refused = NoRefusal
  /\ client = NoClient

NextSweep ==
  \/ \E zipFile \in world.uploads : Convert(1, zipFile)
  \/ Pipeline(1)
  \/ \E buildId \in world.polled : StatusQuery(buildId)
  \/ periodicCleanup
  \/ Tick

SpecSweep == InitSweep /\ [][NextSweep]_vars

(***************************************************************************)
(* The scaffold on its own: createElectronApp(buildDir, 1, config, iconData) *)
(* up to installDependencies, for every app name in AppNames               *)
(***************************************************************************)
\* the workspace processZipFile returned for index.html and style.css
scaffoldDisk ==
  extractEntries(ensureDir(InitDisk, extractDirOf(1)), extractDirOf(1),
                 <<indexHtml, styleCss>>)

InitScaffold ==
  /\ buildStatuses = updateBuildStatus([x \in {} |-> 0], 1, BUILD_PHASES.GENERATING, NoDetails)
  /\ pc = [b \in BuildIds |-> IF b = 1 THEN "ce_mkdir" ELSE "idle"]
  /\ loop = 0
  /\ responded = {1}
  /\ zip = [b \in BuildIds |-> IF b = 1 THEN Zip(<<indexHtml, styleCss>>) ELSE NoZip]
  /\ icon \in {[b \in BuildIds |-> IF b = 1 THEN k ELSE "none"] : k \in FullWorld.icons}
  /\ err = [b \in BuildIds |-> NoError]
  /\ disk = scaffoldDisk
  /\ reply = NoReply
  /\ cacheLog = NoCacheLog
  /\ sent = NoAnswer
  /\ now = 0
  /\ mtime = [d \in sweepable(scaffoldDisk) |-> 0]
  /\ sweep = NoSweep
  /\ world \in {[FullWorld EXCEPT !.appNames = {appName}] : appName \in AppNames}
  /\ refused = NoRefusal
  /\ client = NoClient

NextScaffold ==
  \/ CreateElectronApp(1)
  \/ GenerateFiles(1)
  \/ ProcessCustomIcon(1)
  \/ RecordFailure(1)
  \/ CleanupFailedBuild(1)

SpecScaffold == InitScaffold /\ [][NextScaffold]_vars

(***************************************************************************)
(* Properties of the status tracker                                        *)
(***************************************************************************)
PhaseOrder ==
  <<BUILD_PHASES.UPLOADING, BUILD_PHASES.EXTRACTING, BUILD_PHASES.VALIDATING,
    BUILD_PHASES.GENERATING, BUILD_PHASES.INSTALLING, BUILD_PHASES.BUILDING,
    BUILD_PHASES.DISTRIBUTING, BUILD_PHASES.COMPLETED>>

isSuccessor(p, q) ==
  \/ p = "none" /\ q = PhaseOrder[1]
  \/ \E i \in 1..(Len(PhaseOrder) - 1) : p = PhaseOrder[i] /\ q = PhaseOrder[i + 1]

\* C1: whenever the phase recorded for a build identifier changes, it changes
\* to the immediate successor in the phase order (the first write being
\* UPLOADING) or to FAILED; no step regresses it or skips a phase, whatever
\* the other builds and the status queries do in between.
C1_PhaseAdvancesByOne ==
  [][\A b \in BuildIds :
       phaseOf(b)' # phaseOf(b) =>
         \/ isSuccessor(phaseOf(b), phaseOf(b)')
         \/ phaseOf(b)' = BUILD_PHASES.FAILED]_vars

\* two builds in flight at once: one has completed while the other installs
C1_Witness ==
  \E b, c \in BuildIds :
    /\ phaseOf(b) = BUILD_PHASES.COMPLETED
    /\ phaseOf(c) = BUILD_PHASES.INSTALLING

\* C2: COMPLETED and FAILED are terminal: a record in one of them is never
\* written again, so FAILED is entered from a non-terminal phase only, once,
\* and keeps the one error message it was written with.
C2_TerminalNeverRewritten ==
  [][\A b \in BuildIds :
       phaseOf(b) \in {BUILD_PHASES.COMPLETED, BUILD_PHASES.FAILED} =>
         /\ b \in DOMAIN buildStatuses'
         /\ buildStatuses'[b] = buildStatuses[b]]_vars

\* a failed build whose pipeline has settled, beside a completed one
C2_Witness ==
  \E b, c \in BuildIds :
    /\ phaseOf(b) = BUILD_PHASES.FAILED /\ pc[b] = "done"
    /\ buildStatuses[b].error = err[b]
    /\ phaseOf(c) = BUILD_PHASES.COMPLETED /\ pc[c] = "done"

inSubprocess(b) == pc[b] \in {"ic_exec", "fb_exec", "be_exec"}

\* C5: while the external subprocess of one build runs, a status query for any
\* identifier can be answered, and every other build that has work to do can
\* take its next step.
C5_SubprocessBlocksNobody ==
  \A b \in BuildIds :
    inSubprocess(b) =>
      /\ \A buildId \in world.polled : ENABLED StatusQuery(buildId)
      /\ \A c \in BuildIds \ {b} :
           pc[c] \notin {"idle", "done"} => ENABLED Pipeline(c)

(***************************************************************************)
(* Properties of the failure path                                          *)
(***************************************************************************)
\* C6: once a step of a build has thrown and buildProcess has caught it, the
\* record of the build is FAILED and its error field is the message of the
\* error that was thrown; a settled build is COMPLETED or FAILED.
C6_FailureRecordsTheMessage ==
  \A b \in BuildIds :
    /\ err[b] # NoError /\ pc[b] \in {"bp_cleanup", "done"} =>
         /\ phaseOf(b) = BUILD_PHASES.FAILED
         /\ buildStatuses[b].error = err[b]
    /\ pc[b] = "done" =>
         phaseOf(b) = (IF err[b] = NoError THEN BUILD_PHASES.COMPLETED
                       ELSE BUILD_PHASES.FAILED)

\* the toolchain was killed at its timeout and the record says so
C6_Witness ==
  \E b \in BuildIds :
    /\ pc[b] = "bp_cleanup"
    /\ err[b] = wrapBuildError(<<"Build command failed: ", "spawnSync /bin/sh ETIMEDOUT">>)
    /\ buildStatuses[b].error = err[b]

\* the cleanup of b has left one of its directories behind: fs.remove threw
cleanupFailed(fs, b) == pathExists(fs, buildDir(b)) \/ pathExists(fs, outputDir(b))

\* C7: when the cleanup of a failed build fails, the step leaves the record
\* as it was, FAILED with the message of the original error, and nothing is
\* thrown out of buildProcess.
C7_CleanupFailureKeepsRecord ==
  [][\A b \in BuildIds :
       pc[b] = "bp_cleanup" /\ pc'[b] = "done" /\ cleanupFailed(disk', b) =>
         /\ buildStatuses' = buildStatuses
         /\ phaseOf(b)' = BUILD_PHASES.FAILED
         /\ buildStatuses'[b].error = err[b]]_vars

\* a settled failed build whose workspace is still on disk
C7_Witness ==
  \E b \in BuildIds :
    /\ pc[b] = "done"
    /\ pathExists(disk, buildDir(b))
    /\ phaseOf(b) = BUILD_PHASES.FAILED
    /\ buildStatuses[b].error = err[b]
    /\ err[b] # NoError

(***************************************************************************)
(* Properties of the intake                                                *)
(***************************************************************************)
\* C8: for every buffer longer than the 50 MiB cap, processZipFile creates no
\* workspace directory, does not return, and throws the size message.
C8_OversizeRefused ==
  zip[1].length > maxTotalSize =>
    /\ ~pathExists(disk, buildDir(1))
    /\ pc[1] \in {"pz_validateZipBuffer", "pz_cleanup", "pz_thrown"}
    /\ pc[1] \in {"pz_cleanup", "pz_thrown"} =>
         err[1] = <<"ZIP file too large. Maximum size is 50MB">>

\* processZipFile has thrown on a buffer one byte over the cap
C8_Witness ==
  /\ zip[1].length = maxTotalSize + 1
  /\ pc[1] = "pz_thrown"
  /\ err[1] = <<"ZIP file too large. Maximum size is 50MB">>
  /\ ~pathExists(disk, buildDir(1))

\* the entry, resolved against the extraction directory, leaves the workspace
resolvesOutside(b, entry) ==
  ~IsPrefix(buildDir(b), join(extractDirOf(b), normalize(stripLeadingSlashes(entry.path))))

\* C9: for every archive with an entry that resolves outside the workspace
\* root, processZipFile throws and nothing extracted remains on disk.
C9_EscapingEntryFailsExtraction ==
  (\E i \in 1..Len(zip[1].entries) : resolvesOutside(1, zip[1].entries[i])) =>
    /\ pc[1] # "pz_returned"
    /\ pc[1] = "pz_thrown" => getAllFiles(disk, tempDir) = {}

\* the archive names a file with a blocked extension, in any letter case
hasBlockedFile(archive) ==
  \E i \in 1..Len(archive.entries) :
    /\ archive.entries[i].type = "File"
    /\ lowerAll(extname(archive.entries[i].path)) \in blockedExtensions

\* C10: a build whose archive contains a file with a blocked extension never
\* enters VALIDATING or a later phase, and fails with the disallowed-type
\* reason.
C10_BlockedFileStopsIntake ==
  \A b \in BuildIds :
    hasBlockedFile(zip[b]) =>
      /\ phaseOf(b) \in {"none", BUILD_PHASES.UPLOADING, BUILD_PHASES.EXTRACTING,
                         BUILD_PHASES.FAILED}
      /\ phaseOf(b) = BUILD_PHASES.FAILED =>
           \E i \in 1..Len(err[b]) : err[b][i] = "File type not allowed: "

\* the archive names a file larger than the per-file cap
hasOversizeEntry(archive) ==
  \E i \in 1..Len(archive.entries) :
    /\ archive.entries[i].type = "File"
    /\ archive.entries[i].size > maxFileSize

\* C11: for every archive with an entry over the 10 MiB per-file cap,
\* processZipFile does not return, and once it has thrown no file of the
\* build is left on disk.
C11_OversizeEntryRejected ==
  hasOversizeEntry(zip[1]) =>
    /\ pc[1] # "pz_returned"
    /\ pc[1] = "pz_thrown" => getAllFiles(disk, buildDir(1)) = {}

\* the archive names a file with the .html extension, in any letter case
hasHtmlEntry(archive) ==
  \E i \in 1..Len(archive.entries) :
    /\ archive.entries[i].type = "File"
    /\ lowerAll(extname(archive.entries[i].path)) = <<".", "html">>

noEntryDocument == wrapValidationError(<<"No HTML files found in ZIP archive">>)

emptyArchive == wrapValidationError(<<"No files found in ZIP archive">>)

indexPathOf(b) == extractDirOf(b) \o << <<"index", ".", "html">> >>

\* what a returned processZipFile leaves: an HTML file and index.html
intakeLeftEntryDocument(b) ==
  pc[b] = "pz_returned" =>
    /\ \E p \in getAllFiles(disk, extractDirOf(b)) : isHtml(p)
    /\ pathExists(disk, indexPathOf(b))

\* C12 as stated: an archive without a .html file makes processZipFile throw
\* the no-entry-document reason, and a returned processZipFile has left an
\* HTML file and index.html at the content root.
C12_NoHtmlIsNoEntryDocument ==
  /\ ~hasHtmlEntry(zip[1]) =>
       /\ pc[1] # "pz_returned"
       /\ pc[1] \in {"pz_cleanup", "pz_thrown"} => err[1] = noEntryDocument
  /\ intakeLeftEntryDocument(1)

\* C12, amended: an archive without a .html file never passes the intake; when
\* its buffer is accepted and none of its files is over the per-file cap or of
\* a blocked type, processZipFile throws the no-entry-document reason if a
\* file was extracted and the empty-archive reason if none was (an archive
\* refused earlier keeps the earlier reason); a returned processZipFile has
\* left an HTML file and index.html at the content root.
C12_NoHtmlNeverPasses ==
  /\ ~hasHtmlEntry(zip[1]) =>
       /\ pc[1] \notin {"pz_index", "pz_returned"}
       /\ /\ pc[1] \in {"pz_cleanup", "pz_thrown"}
          /\ validateZipBuffer(zip[1]) = NoError
          /\ ~hasBlockedFile(zip[1])
          /\ ~hasOversizeEntry(zip[1])
          => /\ err[1] \in {noEntryDocument, emptyArchive}
             /\ pc[1] = "pz_cleanup" =>
                  (err[1] = emptyArchive <=> getAllFiles(disk, extractDirOf(1)) = {})
  /\ intakeLeftEntryDocument(1)

\* processZipFile has thrown the no-entry-document reason on a style sheet
C12_Witness ==
  /\ zip[1].entries = <<styleCss>>
  /\ pc[1] = "pz_thrown"
  /\ err[1] = noEntryDocument

\* where the entry handler puts an entry of the archive of build b
entryLocation(b, entry) == join(extractDirOf(b), sanitizePath(entry.path))

\* the top-level directories that wrap every entry of the archive of build b,
\* an HTML file among them
wrappers(b) ==
  LET depth == Len(extractDirOf(b))
      locs == {entryLocation(b, zip[b].entries[i]) : i \in 1..Len(zip[b].entries)}
  IN {w \in {l[depth + 1] : l \in {x \in locs : Len(x) > depth}} :
        /\ \A i \in 1..Len(zip[b].entries) :
             /\ IsPrefix(extractDirOf(b) \o <<w>>, entryLocation(b, zip[b].entries[i]))
             /\ zip[b].entries[i].type = "File" =>
                  Len(entryLocation(b, zip[b].entries[i])) > depth + 1
        /\ hasHtmlEntry(zip[b])}

\* the location of l with the wrapper directory taken out
unwrapped(b, l) ==
  LET depth == Len(extractDirOf(b))
  IN extractDirOf(b) \o SubSeq(l, depth + 2, Len(l))

\* C13: when processZipFile returns for an archive whose entries all lie in
\* one top-level directory with an HTML file in it, the wrapper directory is
\* gone and every file of the archive is one level up.
C13_WrapperFlattened ==
  pc[1] = "pz_returned" =>
    \A w \in wrappers(1) :
      /\ ~pathExists(disk, extractDirOf(1) \o <<w>>)
      /\ \A i \in 1..Len(zip[1].entries) :
           zip[1].entries[i].type = "File" =>
             unwrapped(1, entryLocation(1, zip[1].entries[i])) \in DOMAIN disk.f

(***************************************************************************)
(* Properties of the dependency cache                                      *)
(***************************************************************************)
\* C14: builds with the same manifest run at most one cache install and one
\* cache promotion between them, however they interleave: no manifest hash is
\* installed or promoted a second time.
C14_OneInstallPerManifest ==
  /\ \A h \in DOMAIN cacheLog.installs : cacheLog.installs[h] <= 1
  /\ \A h \in DOMAIN cacheLog.promotions : cacheLog.promotions[h] <= 1

(***************************************************************************)
(* Properties of the toolchain run                                         *)
(***************************************************************************)
\* what buildExecutable throws when execSync gives up at its timeout
timedOut == wrapBuildError(<<"Build command failed: ", "spawnSync /bin/sh ETIMEDOUT">>)

killedAtTimeout(b) == pc[b] = "bp_catch" /\ err[b] = timedOut

downloadStatuses(b) == {r.status : r \in downloadResponse(disk, b)}

\* C16: while the record of a build is COMPLETED and its output directory
\* is on disk, the download endpoint finds an executable in that directory and
\* streams it: every answer for that build is 200 with a file.
C16_CompletedIsDownloadable ==
  \A b \in BuildIds :
    phaseOf(b) = BUILD_PHASES.COMPLETED /\ pathExists(disk, outputDir(b)) =>
      downloadStatuses(b) = {200}

\* no executable of the build is in its output directory
noArtifact(buildId) == findBuiltExecutableInDirectory(disk, outputDir(buildId)) = {}

\* C17: whenever no artifact exists for an identifier (the build is unknown,
\* still in progress or failed), the download endpoint answers 404 and
\* nothing else.
C17_NoArtifactIsNotFound ==
  \A buildId \in world.polled :
    noArtifact(buildId) => downloadStatuses(buildId) = {404}

(***************************************************************************)
(* Properties of the sweeper                                               *)
(***************************************************************************)
\* the step is one of periodicCleanup
sweeping == sweep' # sweep

\* the step is the turn of directory d in a for loop of periodicCleanup
turnOf(d) ==
  /\ sweep.pc \in {"temp", "dist"}
  /\ sweep'.pc = sweep.pc
  /\ d \in sweep.todo /\ d \notin sweep'.todo
  /\ pathExists(disk, d)

nonTerminal(b) ==
  /\ b \in DOMAIN buildStatuses
  /\ buildStatuses[b].phase \notin {BUILD_PHASES.COMPLETED, BUILD_PHASES.FAILED}

\* C19: no step of the sweeper removes the workspace or the output
\* directory of a build whose record is in a non-terminal phase.
C19_SweepSparesActiveBuilds ==
  [][\A b \in BuildIds :
       sweeping /\ nonTerminal(b) =>
         /\ pathExists(disk, buildDir(b)) => pathExists(disk', buildDir(b))
         /\ pathExists(disk, outputDir(b)) => pathExists(disk', outputDir(b))]_vars

\* the step removes a directory of build b
removesDirOf(b) ==
  \/ pathExists(disk, buildDir(b)) /\ ~pathExists(disk', buildDir(b))
  \/ pathExists(disk, outputDir(b)) /\ ~pathExists(disk', outputDir(b))

\* C20: no step of the sweeper and no step that removes a directory of a
\* build changes the tracker, and a status query for an identifier the tracker
\* knows answers with the phase of its record, whatever is on disk.
C20_TrackerIndependentOfDisk ==
  [][/\ sweeping => buildStatuses' = buildStatuses
     /\ \A b \in BuildIds : removesDirOf(b) => buildStatuses' = buildStatuses
     /\ \A buildId \in world.polled :
          reply' # reply /\ reply'.id = buildId /\ buildId \in DOMAIN buildStatuses =>
            reply'.phase = buildStatuses[buildId].phase]_vars

\* the directories of a completed build were swept, and the status query
\* still answers COMPLETED
C20_Witness ==
  /\ phaseOf(1) = BUILD_PHASES.COMPLETED
  /\ ~pathExists(disk, buildDir(1))
  /\ ~pathExists(disk, outputDir(1))
  /\ reply = [id |-> 1, phase |-> BUILD_PHASES.COMPLETED]

iconPng(b) == appContentDir(b) \o << <<"icon", ".", "png">> >>

C22_NoZipIsRefusedWithoutEffect ==
  [][refused' # refused =>
       /\ refused'.status = 400
       /\ refused'.error = "No ZIP file provided"
       /\ pc' = pc
       /\ buildStatuses' = buildStatuses
       /\ disk' = disk
       /\ responded' = responded
       /\ zip' = zip]_vars

\* the request was refused, and no build exists
C22_Witness ==
  /\ refused.status = 400
  /\ \A b \in BuildIds : pc[b] = "idle" /\ ~pathExists(disk, buildDir(b))
  /\ DOMAIN buildStatuses = {}

\* C23: whatever the entry paths of the archive, everything the intake of
\* build 1 creates lies in temp/1/content (or is that directory or one of its
\* parents), in every state of the extraction.
C23_ExtractionStaysInContent ==
  \A p \in disk.d \cup DOMAIN disk.f :
    \/ p \in InitDisk.d
    \/ p \in Prefixes(extractDirOf(1))
    \/ IsPrefix(extractDirOf(1), p)

\* what the cache directory holds
cached(fs) == [p \in getAllFiles(fs, nodeModulesCacheDir) |-> fs.f[p]]

\* C24: a build that is about to copy the cache (it found the cache valid,
\* or has just promoted it) copies modules that were installed from its own
\* manifest, and as long as it has not copied, no step of another build
\* removes or changes a cache that is valid for it.
C24_CopiesTheCacheOfItsHash ==
  [][\A b \in BuildIds :
       /\ pc[b] = "id_copy" /\ pc'[b] # "id_copy" =>
            /\ pc'[b] = "ce_returned"
            /\ installedPackages(electronAppDir(b)) \in DOMAIN disk'.f
            /\ disk'.f[installedPackages(electronAppDir(b))].data = manifest(icon[b])
       /\ pc[b] = "id_copy" /\ pc'[b] = "id_copy" /\ cacheValid(disk, b) =>
            /\ cacheValid(disk', b)
            /\ cached(disk') = cached(disk)]_vars

\* the builds between 'remove old cache' and the written hash
promoting == {b \in BuildIds : pc[b] \in {"ic_move", "ic_hash"}}

\* the builds whose rebuild has files in .cache/temp-install
usingTempInstall ==
  {b \in BuildIds : pc[b] \in {"ic_exec", "ic_promote", "ic_move", "ic_hash", "ic_tidy"}}

\* C25: at most one build is between the removal of the old cache and the
\* recording of the new hash, and at most one rebuild uses the temporary
\* install directory at a time.
C25_PromotionIsExclusive ==
  /\ Cardinality(promoting) <= 1
  /\ Cardinality(usingTempInstall) <= 1

\* C26: a sweep goes through both loops whatever happens to the directories
\* it listed: it ends only when the loop over dist has nothing left to
\* inspect, so every listed directory that is still there gets its turn.
C26_SweepSurvivesVanishedDir ==
  [][sweep.pc # "idle" /\ sweep'.pc = "idle" =>
       sweep.pc = "dist" /\ sweep.todo = {}]_vars

(***************************************************************************)
(* Termination                                                             *)
(***************************************************************************)
settled(b) == phaseOf(b) \in {BUILD_PHASES.COMPLETED, BUILD_PHASES.FAILED}

\* C27: when every continuation that is ready runs, every subprocess ends
\* and every file system call returns, a build whose submission was answered
\* with its id gets a record in COMPLETED or FAILED, and its pipeline comes to
\* an end.
C27_AnsweredBuildSettles ==
  \A b \in BuildIds :
    /\ (b \in responded) ~> settled(b)
    /\ (b \in responded) ~> (pc[b] = "done")

\* the submission was answered and the build completed
C27_Witness ==
  /\ 1 \in responded
  /\ pc[1] = "done"
  /\ err[1] = NoError
  /\ phaseOf(1) = BUILD_PHASES.COMPLETED

\* the file the 'entry' handler writes for entry e is in the workspace of b
written(b, e) ==
  \E p \in getAllFiles(disk, buildDir(b)) : disk.f[p] = [size |-> e.size, data |-> e.path]

\* C28: when processZipFile has returned normally, every file entry of the
\* archive is in the workspace with its full size: no entry was skipped.
C28_IntakeIsAllOrNothing ==
  pc[1] = "pz_returned" =>
    \A i \in 1..Len(zip[1].entries) :
      zip[1].entries[i].type = "File" => written(1, zip[1].entries[i])

(***************************************************************************)
(* The fallback install                                                    *)
(***************************************************************************)
\* where a build is while installDependencies works with the shared cache
cachePath == {"ic_check", "ic_prepare", "ic_exec", "ic_promote", "ic_move",
              "ic_hash", "ic_tidy", "id_copy"}

dependencyFailure(e) == Len(e) >= 2 /\ e[2] = "Failed to install dependencies: "

\* C29: no step of a build on the cache path raises an error: the build
\* stays on the cache path, returns with the copied modules, or starts the
\* fallback install in its own project directory.  A fallback install that
\* succeeds lets the build proceed with its modules installed there, and a
\* dependency error is only raised by a fallback install that failed.
C29_CacheFailureFallsBack ==
  [][\A b \in BuildIds :
       /\ pc[b] \in cachePath /\ pc'[b] # pc[b] =>
            /\ pc'[b] \in cachePath \cup {"fb_exec", "ce_returned"}
            /\ err'[b] = err[b]
       /\ pc[b] = "fb_exec" /\ pc'[b] # pc[b] =>
            \/ /\ pc'[b] = "ce_returned"
               /\ err'[b] = err[b]
               /\ pathExists(disk', installedPackages(electronAppDir(b)))
            \/ /\ pc'[b] = "bp_catch"
               /\ dependencyFailure(err'[b])
       /\ dependencyFailure(err'[b]) /\ ~dependencyFailure(err[b]) => pc[b] = "fb_exec"]_vars

\* no cache install ever succeeded, and a build completed: its modules came
\* from the fallback install
C29_Witness ==
  \E b \in BuildIds :
    /\ phaseOf(b) = BUILD_PHASES.COMPLETED
    /\ cacheLog = NoCacheLog
    /\ pathExists(disk, installedPackages(electronAppDir(b)))

(***************************************************************************)
(* Cleanup after a failure                                                 *)
(***************************************************************************)
ownPath(b, p) == IsPrefix(buildDir(b), p) \/ IsPrefix(outputDir(b), p)

\* the step changes nothing outside the two directories of build b
touchesOnly(b) ==
  /\ \A p \in disk.d \cup disk'.d : ~ownPath(b, p) => (p \in disk.d <=> p \in disk'.d)
  /\ \A p \in DOMAIN disk.f \cup DOMAIN disk'.f :
       ~ownPath(b, p) =>
         /\ p \in DOMAIN disk.f /\ p \in DOMAIN disk'.f
         /\ disk'.f[p] = disk.f[p]

\* C30: where fs.remove does not fail, a FAILED build whose pipeline has
\* finished has neither its workspace nor its output directory, and cleanup
\* for it once more changes nothing and throws nothing; the cleanup steps of a
\* build change nothing outside that build's two directories.
C30_FailedBuildLeavesNothing ==
  /\ [](\A b \in BuildIds :
          pc[b] = "done" /\ phaseOf(b) = BUILD_PHASES.FAILED =>
            /\ ~pathExists(disk, buildDir(b))
            /\ ~pathExists(disk, outputDir(b))
            /\ cleanup(disk, b) = {[fs |-> disk, threw |-> FALSE]})
  /\ [][\A b \in BuildIds :
         pc[b] \in {"pz_cleanup", "bp_cleanup"} /\ pc'[b] # pc[b] => touchesOnly(b)]_vars

\* one build failed in the toolchain run and was cleaned up while the other
\* build still has its workspace
C30_Witness ==
  \E b, c \in BuildIds :
    /\ pc[b] = "done"
    /\ phaseOf(b) = BUILD_PHASES.FAILED
    /\ err[b] = wrapBuildError(<<"Build command failed: ", "Command failed: npm run build">>)
    /\ ~pathExists(disk, buildDir(b))
    /\ ~pathExists(disk, outputDir(b))
    /\ pc[c] \notin {"idle", "done"}
    /\ pathExists(disk, buildDir(c))

(***************************************************************************)
(* The entry document                                                      *)
(***************************************************************************)
\* C31: when the intake of build 1 is about to make sure of index.html, the
\* content of the workspace determines the result: ensureIndexHtml can leave
\* one disk only, and it is the disk as it was when index.html is at the root.
C31_EntryDocumentIsDetermined ==
  pc[1] = "pz_index" /\ pathExists(disk, extractDirOf(1)) =>
    /\ Cardinality(ensureIndexHtml(disk, extractDirOf(1))) = 1
    /\ pathExists(disk, extractDirOf(1) \o << <<"index", ".", "html">> >>) =>
         ensureIndexHtml(disk, extractDirOf(1)) = {disk}

(***************************************************************************)
(* The search for the executables                                          *)
(***************************************************************************)
expectedArtifacts(b) ==
  findBuiltExecutableInDirectory(disk, electronAppDir(b) \o << <<"dist">> >>)

fallbackArtifacts(b) ==
  findBuiltExecutableInDirectory(disk, buildDir(b) \o << <<"dist">> >>)

noArtifactsReason == wrapBuildError(<<"No executable files found after build">>)

\* the step leaves in the output directory of b a copy of every file of
\* matched under its own name, nothing else, and keeps the sources
copiedExactly(b, matched) ==
  /\ \A p \in matched :
       /\ p \in DOMAIN disk'.f
       /\ outputDir(b) \o <<p[Len(p)]>> \in DOMAIN disk'.f
       /\ disk'.f[outputDir(b) \o <<p[Len(p)]>>] = disk.f[p]
  /\ getAllFiles(disk', outputDir(b)) = {outputDir(b) \o <<p[Len(p)]>> : p \in matched}

\* C32: the search after a toolchain run that exited zero takes the
\* executables of the project's dist when there are any, those of the parent's
\* dist only when there are none, and in both cases copies every one of them
\* into the output directory and keeps the source; when both places are
\* empty the build fails with the no-artifacts reason, which no failed
\* toolchain run reports.
C32_ArtifactsSearchedInOrder ==
  [][\A b \in BuildIds :
       pc[b] = "be_find" /\ pc'[b] # "be_find" =>
         /\ expectedArtifacts(b) # {} =>
              pc'[b] = "be_returned" /\ copiedExactly(b, expectedArtifacts(b))
         /\ expectedArtifacts(b) = {} /\ fallbackArtifacts(b) # {} =>
              pc'[b] = "be_returned" /\ copiedExactly(b, fallbackArtifacts(b))
         /\ expectedArtifacts(b) = {} /\ fallbackArtifacts(b) = {} =>
              /\ pc'[b] = "bp_catch"
              /\ err'[b] = noArtifactsReason
              /\ disk' = disk
         /\ \A reason \in world.toolchainFailures :
              noArtifactsReason # wrapBuildError(<<"Build command failed: ", reason>>)]_vars

\* both places held an executable, and only the one of the project's dist is
\* in the output directory of the completed build
C32_Witness ==
  /\ phaseOf(1) = BUILD_PHASES.COMPLETED
  /\ expectedArtifacts(1) # {}
  /\ fallbackArtifacts(1) # {}
  /\ getAllFiles(disk, outputDir(1)) = {outputDir(1) \o <<setupExe>>}

(***************************************************************************)
(* Properties of the app name                                              *)
(***************************************************************************)
hasAlphanumeric(name) ==
  \E i \in 1..Len(name) :
    name[i] \in Range(lowerCaseLetters) \cup Range(upperCaseLetters) \cup digits

invalidAppName == wrapCreateError(<<"Invalid app name">>)

\* C33: the name check of createElectronApp lets every app name with an
\* alphanumeric character through (an absent name counts as 'My App'), and
\* raises 'Invalid app name' only for names without one.
C33_AlphanumericNameAccepted ==
  [][\A appName \in world.appNames :
       pc[1] = "ce_mkdir" /\ pc'[1] # "ce_mkdir" =>
         /\ hasAlphanumeric(userAppNameOf(appName)) =>
              pc'[1] = "ce_copy" /\ err'[1] = NoError
         /\ err'[1] = invalidAppName => ~hasAlphanumeric(userAppNameOf(appName))]_vars

(***************************************************************************)
(* Properties of the flattening                                            *)
(***************************************************************************)
contentFiles(fs) == getAllFiles(fs, extractDirOf(1))

\* the files of the content directory are those of before, each one level up
flattenedWhole ==
  /\ \A p \in contentFiles(disk) :
       /\ Len(p) > Len(extractDirOf(1)) + 1
       /\ unwrapped(1, p) \in contentFiles(disk')
       /\ disk'.f[unwrapped(1, p)] = disk.f[p]
  /\ contentFiles(disk') = {unwrapped(1, p) : p \in contentFiles(disk)}
  /\ Cardinality(contentFiles(disk')) = Cardinality(contentFiles(disk))

\* the files of the content directory are those of before, where they were
leftWhole ==
  /\ contentFiles(disk') = contentFiles(disk)
  /\ \A p \in contentFiles(disk) : disk'.f[p] = disk.f[p]

\* C34: the step of handleNestedStructure leaves the files of the content
\* directory all where they were or all one level up, with their content.
C34_FlattenIsAllOrNothing ==
  [][pc[1] = "pz_nested" /\ pc'[1] # "pz_nested" => leftWhole \/ flattenedWhole]_vars

(***************************************************************************)
(* Properties of the manifest                                              *)
(***************************************************************************)
\* package.json of build b has the icon entry
namesIcon(fs, b) ==
  /\ packageJson(electronAppDir(b)) \in DOMAIN fs.f
  /\ "icon: app/icon.png" \in Range(fs.f[packageJson(electronAppDir(b))].data)

\* C35: once the icon step of a build is over, its package.json has the icon
\* entry only if app/icon.png was written into the project.
C35_ManifestNamesWrittenIconOnly ==
  \A b \in BuildIds :
    pc[b] = "ic_check" /\ namesIcon(disk, b) => pathExists(disk, iconPng(b))

(***************************************************************************)
(* Properties of the tracker records                                       *)
(***************************************************************************)
\* the keys one call of updateBuildStatus for the phase writes
keysOf(phase) ==
  {"buildId", "phase", "description"} \cup
    (IF phase = BUILD_PHASES.BUILDING THEN {"note", "estimatedTime"}
     ELSE IF phase = BUILD_PHASES.COMPLETED THEN {"downloadUrl"}
     ELSE IF phase = BUILD_PHASES.FAILED THEN {"error"}
     ELSE {})

\* the record is what a single updateBuildStatus(b, ...) wrote
wholeSnapshot(record, b) ==
  /\ DOMAIN record = keysOf(record.phase)
  /\ record.buildId = b
  /\ record.description = PHASE_DESCRIPTIONS[record.phase]

\* C36: a step changes the record of at most the build that takes it, a
\* status read changes no record, every record is the snapshot of one
\* transition, and a read answers from the one record of the identifier.
C36_RecordsAreIndependent ==
  [][/\ \A b \in BuildIds :
          getBuildStatus(buildStatuses', b) # getBuildStatus(buildStatuses, b)
            => /\ pc'[b] # pc[b]
               /\ \A c \in BuildIds \ {b} :
                     /\ pc'[c] = pc[c]
                     /\ getBuildStatus(buildStatuses', c) = getBuildStatus(buildStatuses, c)
     /\ reply' # reply => buildStatuses' = buildStatuses
     /\ \A b \in DOMAIN buildStatuses' : wholeSnapshot(buildStatuses'[b], b)
     /\ reply' # reply /\ reply'.id \in DOMAIN buildStatuses
          => reply'.phase = buildStatuses[reply'.id].phase]_vars

\* two builds with records of different phases, one of them failed, and a
\* status read of the first answered
C36_Witness ==
  /\ DOMAIN buildStatuses = {1, 2}
  /\ buildStatuses[1].phase = BUILD_PHASES.FAILED
  /\ buildStatuses[2].phase = BUILD_PHASES.BUILDING
  /\ reply = [id |-> 1, phase |-> BUILD_PHASES.FAILED]

(***************************************************************************)
(* The browser client (public/script.js): pollBuildStatus                  *)
(***************************************************************************)
maxAttempts == 100

\* setTimeout(poll, 1000)
pollInterval == 1000

\* the timeout of execSync(buildCommand) in buildExecutable
buildTimeout == 600000

minute == 60000

\* convertFiles after the answer to POST /api/convert: currentBuildId is set
\* and pollBuildStatus() starts with attempts = 0 and arms the first timer
StartPolling(b) ==
  /\ b \in responded
  /\ client.result = "idle"
  /\ client' = [client EXCEPT !.currentBuildId = b, !.attempts = 0, !.result = "polling"]
  /\ UNCHANGED <<buildStatuses, pc, loop, responded, zip, icon, err, disk, reply,
                 cacheLog, mtime, sent, now, sweep, world, refused>>

\* poll: the timer fires pollInterval after it was armed; past maxAttempts the
\* page shows 'Build timeout - ...'; otherwise GET /api/status is answered
\* once the thread of the server is free, and the page shows success on
\* 'completed', the error on 'failed', 'Build not found' on 'not_found', and
\* arms the timer again on every other phase.  Both pollers of script.js
\* (html2exeApp and HTML2EXEConverter) are this code.
poll ==
  /\ loop = 0
  /\ client.result = "polling"
  /\ LET attempts == client.attempts + 1
         ticked == [client EXCEPT !.attempts = attempts, !.clock = @ + pollInterval]
         phase == statusResponse(buildStatuses, disk, client.currentBuildId)
     IN IF attempts > maxAttempts
        THEN /\ client' = [ticked EXCEPT !.result = "Build timeout"]
             /\ reply' = reply
        ELSE /\ reply' = [id |-> client.currentBuildId, phase |-> phase]
             /\ client' =
                  [ticked EXCEPT !.result =
                     IF phase = BUILD_PHASES.COMPLETED THEN "success"
                     ELSE IF phase = BUILD_PHASES.FAILED THEN "Build failed"
                     ELSE IF phase # "not_found" THEN "polling"
                     ELSE "Build not found"]
  /\ UNCHANGED <<buildStatuses, pc, loop, responded, zip, icon, err, disk,
                 cacheLog, mtime, sent, now, sweep, world, refused>>

\* a minute passes while execSync(buildCommand) holds the thread; the
\* toolchain is killed when buildTimeout is reached
ToolchainRuns(b) ==
  /\ loop = b
  /\ pc[b] = "be_exec"
  /\ client.clock + minute < buildTimeout
  /\ client' = [client EXCEPT !.clock = @ + minute]
  /\ UNCHANGED <<buildStatuses, pc, loop, responded, zip, icon, err, disk, reply,
                 cacheLog, mtime, sent, now, sweep, world, refused>>

\* the page, one build in the lean world and the time the toolchain takes
InitClient ==
  /\ buildStatuses = [x \in {} |-> 0]
  /\ pc = [b \in BuildIds |-> "idle"]
  /\ loop = 0
  /\ responded = {}
  /\ zip = [b \in BuildIds |-> NoZip]
  /\ icon = [b \in BuildIds |-> "none"]
  /\ err = [b \in BuildIds |-> NoError]
  /\ disk = InitDisk
  /\ reply = NoReply
  /\ cacheLog = NoCacheLog
  /\ sent = NoAnswer
  /\ now = 0
  /\ mtime = [d \in sweepable(InitDisk) |-> 0]
  /\ sweep = NoSweep
  /\ world = LeanWorld
  /\ refused = NoRefusal
  /\ client = NoClient

NextClient ==
  \/ \E zipFile \in world.uploads : Convert(1, zipFile)
  \/ Pipeline(1)
  \/ StartPolling(1)
  \/ poll
  \/ ToolchainRuns(1)

SpecClient == InitClient /\ [][NextClient]_vars

\* C37: the poller gives up with 'Build timeout' only once buildTimeout has
\* passed, and the page of a build that is COMPLETED by buildTimeout does
\* not show 'Build timeout'.
C37_CompletedInTimeIsNotTimedOut ==
  /\ client.result = "Build timeout" => client.clock >= buildTimeout
  /\ phaseOf(1) = BUILD_PHASES.COMPLETED /\ client.clock <= buildTimeout
       => client.result # "Build timeout"

====
